---------------------------- MODULE Spec2Model ----------------------------
(***************************************************************************)
(* A model of the loro gateway (deadjoe/loro): the protocol frame decoder, *)
(* the stream composer, the quick-response generator and the retry         *)
(* executor of src/src/service.rs, the request handler of src/src/lib.rs   *)
(* and the latency statistics collector of src/src/stats.rs.               *)
(*                                                                         *)
(* Text is modelled as a sequence of one-character strings.  A JSON        *)
(* document of the upstream is written with three kinds of characters:     *)
(*   "{"      the text  {"choices":[{"delta":{"content":"   (SSE dialect)  *)
(*            or        {"message":{"content":"             (NDJSON)       *)
(*   letters  the characters of the content string                         *)
(*   "}"      the text  "}}]}   (SSE)   or   "},"done":false}   (NDJSON)   *)
(* so a document parses exactly when it is "{", letters, "}" and every     *)
(* proper prefix or suffix of it fails to parse, as for real JSON objects. *)
(***************************************************************************)
EXTENDS Integers, Sequences, FiniteSets, TLC

(***************************************************************************)
(* Bounds of the model.                                                    *)
(***************************************************************************)
MaxFrames == 2
MaxFragments == 2
MaxErrors == 1
MaxRetriesBound == 10
MaxTasks == 2
MaxOps == 3
MaxEntriesBound == 2
MaxSamples == 3
MantissaBits == 3
MaxMessages == 2
MaxRequests == 2
FragmentBytes == 4

(***************************************************************************)
(* Program constants.                                                      *)
(***************************************************************************)
MaxChunkBytes == 1024 * 1024
ChunkOverhead == 166
MaxRetriesLimit == 10
StatsMaxEntries == 10000
BackoffUnitMs == 100
QuickMaxChars == 6
MaxTokensLimit == 8192
MaxTemperatureTenths == 20

None == "None"

Min(a, b) == IF a <= b THEN a ELSE b

(***************************************************************************)
(* Text helpers: what the standard library calls used by the decoder do.   *)
(***************************************************************************)
Whitespace == {" ", "\n", "\r", "\t"}
Letters == {"H", "e", "l", "o"}

RECURSIVE TrimStart(_)
TrimStart(s) ==
  IF s # <<>> /\ Head(s) \in Whitespace THEN TrimStart(Tail(s)) ELSE s

RECURSIVE TrimEnd(_)
TrimEnd(s) ==
  IF s # <<>> /\ s[Len(s)] \in Whitespace
    THEN TrimEnd(SubSeq(s, 1, Len(s) - 1))
    ELSE s

\* str::trim
Trim(s) == TrimEnd(TrimStart(s))

\* str::starts_with
StartsWith(s, p) == Len(s) >= Len(p) /\ SubSeq(s, 1, Len(p)) = p

\* One line without its terminator: "\r\n" counts as a terminator too.
StripCR(s) ==
  IF s # <<>> /\ s[Len(s)] = "\r" THEN SubSeq(s, 1, Len(s) - 1) ELSE s

\* str::lines: the text split at "\n"; a last line needs no terminator,
\* and nothing follows a final terminator.
RECURSIVE LinesFrom(_, _, _)
LinesFrom(s, cur, acc) ==
  IF s = <<>>
    THEN IF cur = <<>> THEN acc ELSE Append(acc, cur)
    ELSE IF Head(s) = "\n"
      THEN LinesFrom(Tail(s), <<>>, Append(acc, StripCR(cur)))
      ELSE LinesFrom(Tail(s), Append(cur, Head(s)), acc)

Lines(s) == LinesFrom(s, <<>>, <<>>)

DataPrefix == <<"d", "a", "t", "a", ":", " ">>
DoneText == <<"[", "D", "O", "N", "E", "]">>

(***************************************************************************)
(* Normalized chunks and the items of a stream (Result<String>).           *)
(* In a chunk of the large-model stream content = <<>> stands for an       *)
(* absent content: the decoder never emits a chunk with an empty content.  *)
(***************************************************************************)
Chunk(role, content, finish_reason) ==
  [kind |-> "chunk", role |-> role, content |-> content,
   finish_reason |-> finish_reason]

ErrItem(msg) ==
  [kind |-> "error", role |-> None, content |-> <<msg>>, finish_reason |-> None]

DoneItem ==
  [kind |-> "done", role |-> None, content |-> DoneText, finish_reason |-> None]

ApologyText == <<" ", "[", "s", "o", "r", "r", "y", "]">>

\* serde_json::to_string(&chunk).len(): the fixed part, the model name and
\* the content.
JsonLen(chunk, model_len) == ChunkOverhead + model_len + Len(chunk.content)

\* An item of the large-model stream: a chunk or an error item.
IsLargeItem(it) == it.kind \in {"chunk", "error"}

Count(seq, P(_)) == Len(SelectSeq(seq, P))

SomeR(chunk) == [tag |-> "Some", chunk |-> chunk]
NoneR == [tag |-> "None", chunk |-> Chunk(None, <<>>, None)]
ErrR == [tag |-> "Err", chunk |-> Chunk(None, <<>>, None)]

\* serde_json::from_str of one upstream JSON document: the text between
\* the braces stands for the content string, in which a space is a
\* character like any other.
ParseJson(t) ==
  IF /\ Len(t) >= 2
     /\ t[1] = "{"
     /\ t[Len(t)] = "}"
     /\ \A i \in 2..(Len(t) - 1) : t[i] \in Letters \cup {" "}
    THEN [ok |-> TRUE, content |-> SubSeq(t, 2, Len(t) - 1)]
    ELSE [ok |-> FALSE, content |-> <<>>]

\* Mutant: an SSE line whose chunk is returned whatever its size.
process_sse_line_unchecked(line, model_len) ==
  IF StartsWith(line, DataPrefix)
    THEN LET json_data == SubSeq(line, Len(DataPrefix) + 1, Len(line))
             parsed == ParseJson(Trim(json_data))
             chunk == Chunk(None, parsed.content, None)
         IN IF Trim(json_data) = DoneText THEN NoneR
            ELSE IF Trim(json_data) = <<>> THEN NoneR
            ELSE IF ~parsed.ok THEN NoneR
            ELSE IF parsed.content # <<>> THEN SomeR(chunk)
            ELSE NoneR
    ELSE NoneR

\* LoroService::process_sse_line_static
process_sse_line_static(line, model_len) ==
  IF StartsWith(line, DataPrefix)
    THEN LET json_data == SubSeq(line, Len(DataPrefix) + 1, Len(line))
             parsed == ParseJson(Trim(json_data))
             chunk == Chunk(None, parsed.content, None)
         IN IF Trim(json_data) = DoneText THEN NoneR
            ELSE IF Trim(json_data) = <<>> THEN NoneR
            ELSE IF ~parsed.ok THEN NoneR
            ELSE IF parsed.content # <<>>
              THEN IF JsonLen(chunk, model_len) > MaxChunkBytes
                     THEN NoneR
                     ELSE SomeR(chunk)
              ELSE NoneR
    ELSE NoneR

\* LoroService::process_ollama_line_static
process_ollama_line_static(line, model_len) ==
  LET resp == ParseJson(line)
      chunk == Chunk(None, resp.content, None)
  IN IF ~resp.ok THEN ErrR
     ELSE IF resp.content = <<>> THEN NoneR
     ELSE IF JsonLen(chunk, model_len) > MaxChunkBytes THEN NoneR
     ELSE SomeR(chunk)

\* The body of the loop over buffer_guard.lines(): one line, given the
\* results and the remaining_data so far.
DecodeLine(raw, ollama, model_len, acc) ==
  LET line == Trim(raw)
      r == IF ollama THEN process_ollama_line_static(line, model_len)
                     ELSE process_sse_line_static(line, model_len)
  IN IF line = <<>> THEN acc
     ELSE IF ollama \/ StartsWith(line, DataPrefix) \/ line = DoneText
       THEN CASE r.tag = "Some" ->
                   [acc EXCEPT !.results = Append(@, r.chunk)]
              [] r.tag = "None" -> acc
              [] OTHER -> [acc EXCEPT !.remaining = line]
       ELSE [acc EXCEPT !.remaining = line]

RECURSIVE DecodeLines(_, _, _, _)
DecodeLines(lines, ollama, model_len, acc) ==
  IF lines = <<>> THEN acc
  ELSE DecodeLines(Tail(lines), ollama, model_len,
                   DecodeLine(Head(lines), ollama, model_len, acc))

\* Mutant: the buffer keeps everything it was given.
DecodeFragmentKeepAll(buf, bytes, ollama, model_len) ==
  [results |-> DecodeLines(Lines(buf \o bytes), ollama, model_len,
                           [results |-> <<>>, remaining |-> <<>>]).results,
   remaining |-> buf \o bytes]

\* The Ok(bytes) arm of the closure mapped over the byte stream: the
\* fragment is appended to the buffer, every line of the buffer is
\* processed, and the buffer becomes remaining_data.
DecodeFragment(buf, bytes, ollama, model_len) ==
  DecodeLines(Lines(buf \o bytes), ollama, model_len,
              [results |-> <<>>, remaining |-> <<>>])

\* Mutant: the raw transport error forwarded as an error item.
ErrorFragmentRaw(model_len) == <<ErrItem("Stream error")>>

\* The Err(e) arm: the apology chunk, or an error item when it is too large.
ErrorFragment(model_len) ==
  LET error_chunk == Chunk(None, ApologyText, "stop")
  IN IF JsonLen(error_chunk, model_len) > MaxChunkBytes
       THEN <<ErrItem("Error chunk too large")>>
       ELSE <<error_chunk>>

(***************************************************************************)
(* The upstream frames the model draws from, per dialect.  A wire is the   *)
(* frames in order, each followed by its line terminator.                  *)
(***************************************************************************)
SseHello == DataPrefix \o <<"{", "H", "e", "l", "l", "o", "}">>
SseLo == DataPrefix \o <<"{", "l", "o", "}">>
SseBad == DataPrefix \o <<"{", "H", "e">>
SseDone == DataPrefix \o DoneText
SseComment == <<":", " ", "c">>
SseEvent == <<"e", "v", "e", "n", "t", ":", " ", "x">>
Blank == <<>>
NdHello == <<"{", "H", "e", "l", "l", "o", "}">>
NdLo == <<"{", "l", "o", "}">>
NdBad == <<"{", "H", "e">>
NdEmpty == <<"{", "}">>
NdSpaced == <<"{", "l", " ", "o", "}">>

SseFrames == {SseHello, SseLo, SseBad, SseDone, SseComment, SseEvent, Blank}
NdFrames == {NdHello, NdLo, NdBad, NdEmpty, NdSpaced, Blank}

FrameSeqs(F) == UNION {[1..n -> F] : n \in 1..MaxFrames}

RECURSIVE Wire(_)
Wire(fs) ==
  IF fs = <<>> THEN <<>> ELSE Head(fs) \o <<"\n">> \o Wire(Tail(fs))

ModelLens == {1, MaxChunkBytes}
QuickText == <<"o", "k">>
\* first_chunk: the chunk that carries the quick response.
QuickChunk(text) ==
  [kind |-> "quick", role |-> "assistant", content |-> text,
   finish_reason |-> None]

(***************************************************************************)
(* The sequential part of StatsCollector::add_request (src/src/stats.rs).   *)
(***************************************************************************)
\* Mutant: one entry too many is kept.
KeepCountPlusOne(m) == (m * 3) \div 4 + 1

\* let keep_count = self.max_entries * 3 / 4
KeepCount(m) == (m * 3) \div 4


\* Mutant: the newest elements are removed.
DrainTail(v, n) == SubSeq(v, 1, Len(v) - n)

\* Vec::drain(0..n) on a vector of at least n elements.
Drain(v, n) == SubSeq(v, n + 1, Len(v))

\* The eviction at the end of add_request, on the four vectors after the
\* pushes.  A drain past the end of a vector panics.
Evict(f, t, q, l, m) ==
  LET keep_count == KeepCount(m)
      remove_count == Len(f) - keep_count
  IN IF Len(f) > m
       THEN IF remove_count > Len(t)
              THEN [first |-> Drain(f, remove_count), total |-> t,
                    quick |-> q, large |-> l, panicked |-> TRUE]
              ELSE [first |-> Drain(f, remove_count),
                    total |-> Drain(t, remove_count),
                    quick |-> IF Len(q) > remove_count
                                THEN Drain(q, remove_count) ELSE q,
                    large |-> IF Len(l) > remove_count
                                THEN Drain(l, remove_count) ELSE l,
                    panicked |-> FALSE]
       ELSE [first |-> f, total |-> t, quick |-> q, large |-> l,
             panicked |-> FALSE]

\* Mutant: a record counted twice.
AddRequestTwice(b, first, total, quick, large, m) ==
  [b EXCEPT !.request_count = @ + 2,
            !.first_response_times = Append(@, first),
            !.total_response_times = Append(@, total)]

\* add_request as one call, on a collector no other task is using:
\* the pushes, the count, the eviction.
AddRequest(b, first, total, quick, large, m) ==
  LET e == Evict(Append(b.first_response_times, first),
                 Append(b.total_response_times, total),
                 b.quick_response_times \o quick,
                 b.large_model_times \o large, m)
  IN [request_count |-> b.request_count + 1,
      first_response_times |-> e.first,
      total_response_times |-> e.total,
      quick_response_times |-> e.quick,
      large_model_times |-> e.large]

EmptyStats ==
  [request_count |-> 0, first_response_times |-> <<>>,
   total_response_times |-> <<>>, quick_response_times |-> <<>>,
   large_model_times |-> <<>>]

(***************************************************************************)
(* Floating point.  A sample is an f64.  The model keeps the arithmetic of *)
(* IEEE 754 (every operation yields the representable value nearest to the *)
(* exact result, ties to the even mantissa) with a mantissa of             *)
(* MantissaBits bits instead of 53, and writes a finite value as the       *)
(* natural number of units it holds; the smallest exponent is that of the  *)
(* unit and there is no largest one.  NaN and Infinity stand for the       *)
(* non-finite values.                                                      *)
(***************************************************************************)
NaN == -1
Infinity == -2

\* f64::is_finite
IsFinite(x) == x >= 0

RECURSIVE Pow2(_)
Pow2(k) == IF k <= 0 THEN 1 ELSE 2 * Pow2(k - 1)

\* The exponent of the binade the exact value num/den lies in.
RECURSIVE Exponent(_, _, _)
Exponent(num, den, e) ==
  IF num >= Pow2(MantissaBits + e) * den
    THEN Exponent(num, den, e + 1)
    ELSE e

\* num/d rounded to the nearest integer, ties to even.
RoundHalfEven(num, d) ==
  LET q == num \div d
      r == num % d
  IN IF 2 * r < d THEN q
     ELSE IF 2 * r > d THEN q + 1
     ELSE IF q % 2 = 0 THEN q ELSE q + 1

\* The representable value nearest to num/den.
RoundF(num, den) ==
  LET e == Exponent(num, den, 0)
  IN RoundHalfEven(num, den * Pow2(e)) * Pow2(e)

\* a + b and a / n on f64.
FAdd(a, b) == RoundF(a + b, 1)
FDiv(a, n) == RoundF(a, n)

\* iter().sum::<f64>(): the elements added one after the other.
RECURSIVE FSum(_, _)
FSum(s, acc) == IF s = <<>> THEN acc ELSE FSum(Tail(s), FAdd(acc, Head(s)))

\* data.iter().filter(|x| x.is_finite())
RECURSIVE FilterFinite(_)
FilterFinite(s) ==
  IF s = <<>> THEN <<>>
  ELSE IF IsFinite(Head(s)) THEN <<Head(s)>> \o FilterFinite(Tail(s))
  ELSE FilterFinite(Tail(s))

\* One element inserted into a sorted sequence, after its equals.
RECURSIVE Insert(_, _)
Insert(s, x) ==
  IF s = <<>> THEN <<x>>
  ELSE IF x < Head(s) THEN <<x>> \o s
  ELSE <<Head(s)>> \o Insert(Tail(s), x)

\* sort_by(partial_cmp) on finite values: ascending.
RECURSIVE Sort(_)
Sort(s) == IF s = <<>> THEN <<>> ELSE Insert(Sort(SubSeq(s, 1, Len(s) - 1)), s[Len(s)])

ZeroStats == [avg |-> 0, min |-> 0, max |-> 0, p50 |-> 0, p95 |-> 0]

\* Mutant: the index rounded to the nearest instead of truncated.
PercentileIdxNearest(n, percent) ==
  IF n = 1 THEN 0 ELSE ((n - 1) * percent + 50) \div 100

\* ((len - 1) as f64 * 0.5) as usize and ((len - 1) as f64 * 0.95) as usize,
\* 0-based; the products are exact enough for the truncation to be that of
\* the exact product for every length below 21.
PercentileIdx(n, percent) == IF n = 1 THEN 0 ELSE ((n - 1) * percent) \div 100

\* calculate_stats
calculate_stats(data) ==
  LET sorted_data == Sort(FilterFinite(data))
      n == Len(sorted_data)
  IN IF data = <<>> THEN ZeroStats
     ELSE IF sorted_data = <<>> THEN ZeroStats
     ELSE [avg |-> FDiv(FSum(sorted_data, 0), n),
           min |-> sorted_data[1],
           max |-> sorted_data[n],
           p50 |-> sorted_data[PercentileIdx(n, 50) + 1],
           p95 |-> sorted_data[PercentileIdx(n, 95) + 1]]

\* StatsCollector::get_avg_first_response_time
get_avg_first_response_time(times) ==
  IF times = <<>> THEN 0 ELSE FDiv(FSum(times, 0), Len(times))

\* StatsCollector::get_stats on the five fields.
get_stats(count, first, total, quick, large) ==
  [total_requests |-> count,
   first_response_latency |-> calculate_stats(first),
   total_response_latency |-> calculate_stats(total),
   quick_response_latency |-> calculate_stats(quick),
   large_model_latency |-> calculate_stats(large)]

\* The samples the model passes to calculate_stats.
SampleValues == {16, 20, 24, NaN, Infinity}

SampleSeqs == UNION {[1..n -> SampleValues] : n \in 0..MaxSamples}

\* The samples 1.0 .. 5.0 of test_calculate_stats_multiple_values, in the
\* order of the test and in another one.
FiveSamples == {<<1, 2, 3, 4, 5>>, <<4, 1, 5, 3, 2>>}

(***************************************************************************)
(* The Quick-Response Generator (get_quick_response) and what it uses of   *)
(* src/src/models.rs.  A text is the sequence of its code points; an ASCII *)
(* character is written as itself, a CJK character by its pinyin and a     *)
(* full-width punctuation mark as "fw" and its ASCII counterpart.          *)
(***************************************************************************)
\* char::to_lowercase, on the upper-case letters the model uses.
LowerChar(c) ==
  CASE c = "H" -> "h"
    [] c = "W" -> "w"
    [] OTHER -> c

\* str::to_lowercase
ToLowercase(s) == [i \in 1..Len(s) |-> LowerChar(s[i])]

\* str::contains
Contains(s, p) ==
  \E i \in 0..(Len(s) - Len(p)) : SubSeq(s, i + 1, i + Len(p)) = p

GreetingPatterns ==
  { <<"ni3", "hao3">>, <<"h", "e", "l", "l", "o">>, <<"h", "i">>, <<"hai1">> }

QuestionPatterns ==
  { <<"shen2", "me5">>, <<"ru2", "he2">>, <<"zen3", "me5">>,
    <<"wei4", "shen2", "me5">>, <<"w", "h", "y">>, <<"h", "o", "w">>,
    <<"w", "h", "a", "t">>, <<"?">>, <<"fw?">> }

RequestPatterns ==
  { <<"qing3">>, <<"bang1", "wo3">>, <<"neng2", "bu4", "neng2">>,
    <<"ke3", "yi3">>, <<"h", "e", "l", "p">>,
    <<"p", "l", "e", "a", "s", "e">> }

\* Mutant: the question patterns tested before the greeting patterns.
categorizeQuestionFirst(message) ==
  LET content == ToLowercase(message.content)
  IN IF \E p \in QuestionPatterns : Contains(content, p) THEN "Question"
     ELSE IF \E p \in GreetingPatterns : Contains(content, p) THEN "Greeting"
     ELSE IF \E p \in RequestPatterns : Contains(content, p) THEN "Request"
     ELSE "Thinking"

\* Message::categorize
categorize(message) ==
  LET content == ToLowercase(message.content)
  IN IF \E p \in GreetingPatterns : Contains(content, p) THEN "Greeting"
     ELSE IF \E p \in QuestionPatterns : Contains(content, p) THEN "Question"
     ELSE IF \E p \in RequestPatterns : Contains(content, p) THEN "Request"
     ELSE "Thinking"

\* RequestCategory::get_responses
get_responses(category) ==
  CASE category = "Greeting" ->
         << <<"ni3", "hao3", "fw!">>, <<"hai1", "fw!">>,
            <<"nin2", "hao3", "fw,">>, <<"wo3", "zai4", "fw,">> >>
    [] category = "Question" ->
         << <<"hao3", "de5", "fw,">>, <<"zhe4", "ge4", "fw,">>,
            <<"guan1", "yu2", "fw,">>, <<"wo3", "lai2", "fw,">> >>
    [] category = "Request" ->
         << <<"hao3", "de5", "fw,">>, <<"ming2", "bai2", "fw,">>,
            <<"wo3", "lai2", "fw,">>, <<"rang4", "wo3", "fw,">> >>
    [] OTHER ->
         << <<"en4", "fw,">>, <<"wo3", "jue2", "de2", "fw,">>,
            <<"rang4", "wo3", "fw,">>, <<"gen1", "ju4", "fw,">> >>

\* The characters is_appropriate_quick_response counts.
ComplexPunctuation == {"fw.", "fw!", "fw?", "fw,"}

IsComplexPunctuation(c) == c \in ComplexPunctuation

\* LoroService::is_appropriate_quick_response
is_appropriate_quick_response(text) ==
  IF Len(text) > QuickMaxChars THEN FALSE
  ELSE IF Count(text, IsComplexPunctuation) > 1 THEN FALSE
  ELSE TRUE

\* Mutant: every text of the small model is accepted.
AcceptsAll(text) == TRUE

\* The test get_quick_response applies to the text of the small model.
Accepts(text) ==
  Len(text) <= QuickMaxChars /\ is_appropriate_quick_response(text)

\* Mutant: the fallback chosen from the first message of the list.
FirstMessage(messages) == messages[1]

\* messages.last()
LastMessage(messages) == messages[Len(messages)]

OkText(text) == [ok |-> TRUE, text |-> text]
ErrText == [ok |-> FALSE, text |-> <<>>]

\* LoroService::call_small_model, given what the small model answers after
\* the retries: the content of its reply, or the kind of its failure.
call_small_model(messages, reply) ==
  IF messages = <<>> THEN ErrText
  ELSE IF Trim(LastMessage(messages).content) = <<>> THEN ErrText
  ELSE IF reply.kind # "ok" THEN ErrText
  ELSE OkText(Trim(reply.content))

\* LoroService::get_quick_response; pick is the index responses.choose
\* draws.
get_quick_response(messages, reply, pick) ==
  LET small == call_small_model(messages, reply)
  IN IF messages = <<>> THEN ErrText
     ELSE IF small.ok /\ Accepts(small.text) THEN OkText(small.text)
     ELSE OkText(get_responses(categorize(LastMessage(messages)))[pick])

\* What the small model may answer.
SmallTexts ==
  { <<>>, <<" ">>, <<"o", "k">>, <<" ", "o", "k", "\n">>,
    <<"hao3", "de5", "fw,">>, <<"en4", "fw,", "fw!">>,
    <<"a", "b", "c", "d", "e", "f">>,
    <<"a", "b", "c", "d", "e", "f", "g">> }

SmallFailures == {"timeout", "http", "status", "malformed", "nocontent"}

SmallReplies ==
  {[kind |-> "ok", content |-> t] : t \in SmallTexts}
    \cup {[kind |-> k, content |-> <<>>] : k \in SmallFailures}

Picks == 1..4

UserMessage(content) == [role |-> "user", content |-> content]

MessageContents ==
  { <<"ni3", "hao3">>, <<"H", "i">>, <<"W", "h", "y">>,
    <<"h", "e", "l", "p">>, <<"o", "k">> }

\* The contents categorize is called on directly: those of the tests (the
\* empty text, a mixed greeting and question, special characters) and texts
\* with keywords of two kinds.
CategorizeContents ==
  MessageContents \cup
  { <<>>,
    <<"H", "e", "l", "l", "o", " ", "ni3", "hao3", " ", "h", "o", "w", "fw?">>,
    <<"!", "@", "#">>,
    <<"h", "i", " ", "qing3">>,
    <<"h", "o", "w", " ", "h", "e", "l", "p">>,
    <<"t", "h", "i", "s", "?">>,
    <<"a", "i", "?">>,
    <<"qing3", "bang1", "wo3">>,
    <<"wo3", "jue2", "de2">> }

MessageLists ==
  UNION {[1..n -> {UserMessage(c) : c \in MessageContents}] :
           n \in 0..MaxMessages}

(***************************************************************************)
(* The request handler chat_completions (src/src/lib.rs) and               *)
(* ChatCompletionRequest::validate.  max_tokens is an Option, <<>> or      *)
(* <<n>>; temperature is written in tenths.  A model name of model_len     *)
(* characters is written by its first character.                           *)
(***************************************************************************)
Roles == {"system", "user", "assistant"}

\* Mutant: a validation that accepts every request.
ValidateAll(req) == TRUE

\* Mutant: a validation without the upper limit of max_tokens.
ValidateNoUpperLimit(req) ==
  /\ Trim(req.model) # <<>>
  /\ req.messages # <<>>
  /\ \A i \in 1..Len(req.messages) :
       /\ req.messages[i].role # ""
       /\ Trim(req.messages[i].content) # <<>>
       /\ req.messages[i].role \in Roles
  /\ (req.max_tokens # <<>>) => ~(req.max_tokens[1] = 0)
  /\ ~(req.temperature < 0 \/ req.temperature > MaxTemperatureTenths)

\* ChatCompletionRequest::validate
Validate(req) ==
  /\ Trim(req.model) # <<>>
  /\ req.messages # <<>>
  /\ \A i \in 1..Len(req.messages) :
       /\ req.messages[i].role # ""
       /\ Trim(req.messages[i].content) # <<>>
       /\ req.messages[i].role \in Roles
  /\ (req.max_tokens # <<>>) =>
       ~(req.max_tokens[1] = 0 \/ req.max_tokens[1] > MaxTokensLimit)
  /\ ~(req.temperature < 0 \/ req.temperature > MaxTemperatureTenths)

GoodRequest ==
  [model |-> <<"m">>, messages |-> <<UserMessage(<<"h", "i">>)>>,
   max_tokens |-> <<>>, temperature |-> 7]

ValidRequests == {GoodRequest}

InvalidRequests ==
  { [GoodRequest EXCEPT !.model = <<" ">>],
    [GoodRequest EXCEPT !.messages = <<>>],
    [GoodRequest EXCEPT !.messages = <<[role |-> "tool",
                                        content |-> <<"h", "i">>]>>],
    [GoodRequest EXCEPT !.messages = <<UserMessage(<<" ">>)>>],
    [GoodRequest EXCEPT !.max_tokens = <<0>>],
    [GoodRequest EXCEPT !.temperature = MaxTemperatureTenths + 1] }

\* The requests validate is called on directly: every combination of a
\* model name, a message list, a max_tokens and a temperature (in tenths)
\* at and around the limits.
ValidateRequests ==
  [model : {<<"m">>, <<" ">>, <<>>},
   messages : { <<>>,
                <<UserMessage(<<"h", "i">>)>>,
                <<[role |-> "tool", content |-> <<"h", "i">>]>>,
                <<[role |-> "", content |-> <<"h", "i">>]>>,
                <<UserMessage(<<" ", "\n">>)>>,
                <<[role |-> "system", content |-> <<"o", "k">>],
                  UserMessage(<<>>)>>,
                <<[role |-> "system", content |-> <<"o", "k">>],
                  [role |-> "assistant", content |-> <<" ", "o", "k">>]>> },
   max_tokens : {<<>>, <<0>>, <<1>>, <<MaxTokensLimit>>,
                 <<MaxTokensLimit + 1>>},
   temperature : {-1, 0, 7, MaxTemperatureTenths, MaxTemperatureTenths + 1}]

Response(status, type, code) ==
  [status |-> status, type |-> type, code |-> code]

NoResponse == Response(0, None, None)

\* Ok(response): the event stream.
OkResponse == Response(200, None, None)

\* The response to a request validate rejects.
ValidationResponse ==
  Response(400, "invalid_request_error", "validation_failed")

\* The match on e.downcast_ref::<LoroError>() in chat_completions.
ErrorResponse(e) ==
  CASE e = "Timeout" -> Response(408, "timeout_error", "request_timeout")
    [] e = "ApiError" -> Response(502, "api_error", "upstream_error")
    [] e = "Validation" ->
         Response(400, "invalid_request_error", "validation_failed")
    [] OTHER -> Response(500, "internal_error", "internal_error")

\* How the large-model call can end: with a response of status 2xx, with
\* no response in time, with a transport failure, with a non-2xx status.
LargeOutcomes == {"ok", "timeout", "http", "status"}

\* The error get_large_model_stream returns: every failure of send() is
\* wrapped as LoroError::HttpClient, a non-2xx status is an anyhow! message.
LargeCallError(outcome) ==
  IF outcome \in {"timeout", "http"} THEN "HttpClient" ELSE "anyhow"

\* The closure chat_completion maps over the stream: an Ok item is the
\* data of an event, an Err item the data "[ERROR: <message>]".
sse_event(item) ==
  IF item.kind = "error"
    THEN [data |-> <<"[ERROR: ">> \o item.content \o <<"]">>]
    ELSE [data |-> item.content]

\* Mutant: the stream ends at its first error item.
RECURSIVE SseStreamStopAtError(_)
SseStreamStopAtError(items) ==
  IF items = <<>> THEN <<>>
  ELSE IF Head(items).kind = "error" THEN <<>>
  ELSE <<sse_event(Head(items))>> \o SseStreamStopAtError(Tail(items))

\* stream.map(..): one event per item, in order.
RECURSIVE SseStream(_)
SseStream(items) ==
  IF items = <<>> THEN <<>>
  ELSE <<sse_event(Head(items))>> \o SseStream(Tail(items))

(***************************************************************************)
(* State of one client request (chat_completion) and of its upstream.      *)
(***************************************************************************)
VARIABLES
  is_ollama,      \* config.large_model.base_url.contains("11434")
  disable_quick,  \* request.disable_quick_response
  model_len,      \* request.model.len()
  frames,         \* the frames the upstream sends
  cuts,           \* where each fragment delivered so far ended in the wire
  nerr,           \* transport errors raised so far
  buffer,         \* the DecodeBuffer
  phase,          \* where the composed stream is
  out,            \* the items the composed stream has yielded
  clock,          \* time since request_start, in ticks
  quick_time,     \* quick_start.elapsed() after get_quick_response
  large_start,    \* the clock when large_start was taken
  first_time,     \* the Option<f64> of stream_direct_response: <<>> or <<t>>
  quick_stats,    \* LoroService.quick_stats
  direct_stats,   \* LoroService.direct_stats
  request,        \* the ChatCompletionRequest the handler received
  response,       \* the handler's response, status 0 before it
  quick_response, \* the text get_quick_response returned
  small_calls,    \* calls of the small model started
  large_calls,    \* calls of the large model started
  large_outcome   \* how the large-model call ended

\* What the handler and the two calls it makes leave behind.
handlerVars ==
  <<request, response, quick_response, small_calls, large_calls, large_outcome>>

streamVars ==
  <<is_ollama, disable_quick, model_len, frames, cuts, nerr, buffer, phase,
    out, clock, quick_time, large_start, first_time, quick_stats,
    direct_stats, request, response, quick_response, small_calls,
    large_calls,
    large_outcome>>

(***************************************************************************)
(* State of one call of execute_with_retry.                                *)
(***************************************************************************)
VARIABLES
  max_retries,  \* the max_retries argument
  attempt,      \* the loop counter
  last_error,   \* Option<Error>: <<>> or <<[kind, attempt]>>
  history,      \* the outcome of every invocation of the operation so far
  sleeps,       \* the delays slept so far, in ms
  retry_pc,     \* "loop", "returned", or "done" after the caller's check
  result,       \* what the executor returned
  caller,       \* "small" (call_small_model) or "large"
  http_status,  \* the status class of the response an Ok result carries
  call_result   \* what the caller makes of the executor's result

retryVars ==
  <<max_retries, attempt, last_error, history, sleeps, retry_pc, result,
    caller, http_status, call_result>>

(***************************************************************************)
(* State of one StatsCollector and of the tasks that call it.  The five    *)
(* RwLocks are numbered in the order every method takes them:              *)
(* 1 first_response_times, 2 total_response_times, 3 quick_response_times, *)
(* 4 large_model_times, 5 request_count.                                   *)
(***************************************************************************)
VARIABLES
  max_entries,           \* StatsCollector.max_entries
  first_response_times,
  total_response_times,
  quick_response_times,
  large_model_times,
  request_count,
  writer,                \* per lock: the task holding it for writing, or 0
  readers,               \* per lock: the tasks holding it for reading
  pc,                    \* per task: where it is in its current call
  nheld,                 \* per task: how many locks it has acquired
  args,                  \* per task: the arguments of its add_request
  local,                 \* per task: the value of *count it has read
  snap,                  \* per task: what its last get_stats saw
  n_add,                 \* add_request calls issued
  n_reset,               \* reset calls issued
  n_get,                 \* reading calls issued
  panicked,              \* a call has panicked
  n_partial,             \* add_request calls issued with a None
  ret,                   \* per task: what its last get_request_count or
                         \* get_avg_first_response_time returned
  metrics                \* per task: <<>> or the counts of its last metrics

statsVars ==
  <<max_entries, first_response_times, total_response_times,
    quick_response_times, large_model_times, request_count, writer, readers,
    pc, nheld, args, local, snap, n_add, n_reset, n_get, panicked,
    n_partial, ret, metrics>>

(***************************************************************************)
(* State of one call of calculate_stats.                                   *)
(***************************************************************************)
VARIABLES
  data,           \* the data argument
  latency_stats,  \* the LatencyStats returned
  calc_pc         \* "call" or "returned"

calcVars == <<data, latency_stats, calc_pc>>

(***************************************************************************)
(* State of one call of get_quick_response.                                *)
(***************************************************************************)
VARIABLES
  messages,      \* the messages argument
  small_reply,   \* what the small model answers
  quick_result,  \* the Result<String> returned
  quick_pc,      \* "call" or "returned"
  cat_message,   \* the message of a direct call of categorize
  category,      \* "none", or the RequestCategory that call returned
  val_request,   \* the request of a direct call of validate
  val_result     \* "none", or "ok" / "err" as that call returned

quickVars ==
  <<messages, small_reply, quick_result, quick_pc, cat_message, category,
    val_request, val_result>>

(***************************************************************************)
(* State of the client streams in flight at once.  Each call of            *)
(* get_large_model_stream makes its own byte stream and its own buffer;    *)
(* the streams share the service's direct_stats.                           *)
(***************************************************************************)
VARIABLES
  conn_frames,  \* the frames every upstream sends
  conn_phase,   \* per request: where its stream is, or "dropped"
  conn_pos,     \* per request: how much of the wire has been polled
  conn_buffer,  \* per request: its DecodeBuffer
  conn_out      \* per request: the items its stream has yielded

connVars == <<conn_frames, conn_phase, conn_pos, conn_buffer, conn_out>>

vars == <<streamVars, retryVars, statsVars, calcVars, quickVars, connVars>>

\* How many characters of the wire have been delivered.
Pos == IF cuts = <<>> THEN 0 ELSE cuts[Len(cuts)]

StreamInit ==
  /\ is_ollama \in BOOLEAN
  /\ disable_quick \in BOOLEAN
  /\ model_len \in ModelLens
  /\ frames \in FrameSeqs(IF is_ollama THEN {NdLo, NdBad}
                                        ELSE {SseLo, SseBad, SseDone})
  /\ cuts = <<>>
  /\ nerr = 0
  /\ buffer = <<>>
  /\ phase = "request"
  /\ out = <<>>
  /\ clock = 0
  /\ quick_time = 0
  /\ large_start = 0
  /\ first_time = <<>>
  /\ quick_stats = EmptyStats
  /\ direct_stats = EmptyStats
  /\ request \in ValidRequests \cup InvalidRequests
  /\ response = NoResponse
  /\ quick_response = <<>>
  /\ small_calls = 0
  /\ large_calls = 0
  /\ large_outcome = None

\* How long get_quick_response may take, in ticks.
QuickTicks == {1, 2}

\* What the small model answers in the requests of the model.
StreamSmallReplies ==
  { [kind |-> "ok", content |-> QuickText],
    [kind |-> "ok", content |-> <<" ">>],
    [kind |-> "timeout", content |-> <<>>] }

\* The fallback phrase drawn in the requests of the model: the first.
StreamPicks == {1}

\* The closure mapped over large_stream.enumerate() in
\* stream_direct_response: the elapsed time is stored when item 0 is Ok.
\* The quick path has no such closure.
FirstTime(items) ==
  IF /\ disable_quick
     /\ Count(out, IsLargeItem) = 0
     /\ items # <<>>
     /\ items[1].kind # "error"
    THEN <<clock + 1>>
    ELSE first_time

\* Mutant: the sentinel chained before the large-model stream.
NextPhaseEndFirst(p) ==
  CASE p = "first" -> "end"
    [] p = "end" -> "large"
    [] p = "large" -> "closed"
    [] OTHER -> p

\* Mutant: the sentinel not chained at all.
NextPhaseNoEnd(p) ==
  CASE p = "first" -> "large"
    [] p = "large" -> "closed"
    [] OTHER -> p

\* The order of stream::once(first).chain(large).chain(once(end_event)).
NextPhase(p) ==
  CASE p = "first" -> "large"
    [] p = "large" -> "end"
    [] p = "end" -> "closed"
    [] OTHER -> p

\* Mutant: the stream is handed out whether or not the call succeeded.
AfterLargeCallStarted(lo, started) == started

\* get_large_model_stream(...).await?: the stream is built only if the call
\* succeeded; its error leaves the function at once.
AfterLargeCall(lo, started) == IF lo = "ok" THEN started ELSE "failed"

\* chat_completions on a request validate rejects: the 400 response.
RejectInvalid ==
  /\ phase = "request"
  /\ ~Validate(request)
  /\ response' = ValidationResponse
  /\ phase' = "failed"
  /\ UNCHANGED <<is_ollama, disable_quick, model_len, frames, cuts, nerr,
                 buffer, out, clock, quick_time, large_start, first_time,
                 quick_stats, direct_stats, request, quick_response,
                 small_calls, large_calls, large_outcome>>
  /\ UNCHANGED <<retryVars, statsVars, calcVars, quickVars, connVars>>

\* chat_completions on a valid request of the quick path, up to its
\* response: stream_quick_response gets the quick text, builds the first
\* chunk and checks its size, then makes the large-model call.
StreamQuickResponse ==
  /\ phase = "request"
  /\ Validate(request)
  /\ ~disable_quick
  /\ small_calls' = small_calls + 1
  /\ \E qt \in QuickTicks, reply \in StreamSmallReplies, pick \in StreamPicks,
        lo \in LargeOutcomes :
       LET quick == get_quick_response(request.messages, reply, pick)
       IN /\ quick_time' = qt
          /\ quick_response' = quick.text
          /\ IF JsonLen(QuickChunk(quick.text), model_len) > MaxChunkBytes
               THEN /\ phase' = "failed"
                    /\ response' = ErrorResponse("anyhow")
                    /\ clock' = clock + qt
                    /\ UNCHANGED <<large_start, large_calls, large_outcome>>
               ELSE /\ phase' = AfterLargeCall(lo, "first")
                    /\ response' = IF lo = "ok" THEN OkResponse
                                    ELSE ErrorResponse(LargeCallError(lo))
                    /\ large_calls' = large_calls + 1
                    /\ large_outcome' = lo
                    /\ large_start' = clock + qt
                    /\ clock' = clock + qt + 1
  /\ UNCHANGED <<is_ollama, disable_quick, model_len, frames, cuts, nerr,
                 buffer, out, first_time, quick_stats, direct_stats,
                 request>>
  /\ UNCHANGED <<retryVars, statsVars, calcVars, quickVars, connVars>>

\* chat_completions on a valid request of the direct path, up to its
\* response: stream_direct_response makes the large-model call.
StreamDirectResponse ==
  /\ phase = "request"
  /\ Validate(request)
  /\ disable_quick
  /\ large_calls' = large_calls + 1
  /\ \E lo \in LargeOutcomes :
       /\ large_outcome' = lo
       /\ phase' = AfterLargeCall(lo, "large")
       /\ response' = IF lo = "ok" THEN OkResponse
                      ELSE ErrorResponse(LargeCallError(lo))
  /\ clock' = clock + 1
  /\ UNCHANGED <<is_ollama, disable_quick, model_len, frames, cuts, nerr,
                 buffer, out, quick_time, large_start, first_time,
                 quick_stats, direct_stats, request, quick_response,
                 small_calls>>
  /\ UNCHANGED <<retryVars, statsVars, calcVars, quickVars, connVars>>

\* The caller polls the first item of the quick path: stream::once(first).
EmitFirstChunk ==
  /\ phase = "first"
  /\ out' = Append(out, QuickChunk(quick_response))
  /\ phase' = NextPhase(phase)
  /\ UNCHANGED <<is_ollama, disable_quick, model_len, frames, cuts, nerr,
                 buffer, clock, quick_time, large_start, first_time,
                 quick_stats, direct_stats>>
  /\ UNCHANGED handlerVars
  /\ UNCHANGED <<retryVars, statsVars, calcVars, quickVars, connVars>>

\* The byte stream yields Ok(bytes): the next k characters of the wire.
UpstreamFragment ==
  /\ phase = "large"
  /\ Len(cuts) < MaxFragments
  /\ Pos < Len(Wire(frames))
  /\ \E k \in 1..(Len(Wire(frames)) - Pos) :
       /\ (Len(cuts) = MaxFragments - 1) => (k = Len(Wire(frames)) - Pos)
       /\ LET bytes == SubSeq(Wire(frames), Pos + 1, Pos + k)
              d == DecodeFragment(buffer, bytes, is_ollama, model_len)
          IN /\ buffer' = d.remaining
             /\ out' = out \o d.results
             /\ first_time' = FirstTime(d.results)
       /\ cuts' = Append(cuts, Pos + k)
  /\ clock' = clock + 1
  /\ UNCHANGED <<is_ollama, disable_quick, model_len, frames, nerr, phase,
                 quick_time, large_start, quick_stats, direct_stats>>
  /\ UNCHANGED handlerVars
  /\ UNCHANGED <<retryVars, statsVars, calcVars, quickVars, connVars>>

\* The byte stream yields Err(e).
UpstreamError ==
  /\ phase = "large"
  /\ nerr < MaxErrors
  /\ out' = out \o ErrorFragment(model_len)
  /\ first_time' = FirstTime(ErrorFragment(model_len))
  /\ nerr' = nerr + 1
  /\ clock' = clock + 1
  /\ UNCHANGED <<is_ollama, disable_quick, model_len, frames, cuts, buffer,
                 phase, quick_time, large_start, quick_stats, direct_stats>>
  /\ UNCHANGED handlerVars
  /\ UNCHANGED <<retryVars, statsVars, calcVars, quickVars, connVars>>

\* The byte stream ends: after the whole body, or early after an error.
UpstreamEnd ==
  /\ phase = "large"
  /\ Pos = Len(Wire(frames)) \/ nerr > 0
  /\ phase' = NextPhase(phase)
  /\ clock' = clock + 1
  /\ UNCHANGED <<is_ollama, disable_quick, model_len, frames, cuts, nerr,
                 buffer, out, quick_time, large_start, first_time,
                 quick_stats, direct_stats>>
  /\ UNCHANGED handlerVars
  /\ UNCHANGED <<retryVars, statsVars, calcVars, quickVars, connVars>>

\* Mutant: every sample goes to the quick bucket.
BucketQuickAlways(dq) == "quick"

\* The collector end_event records into: self.direct_stats on the direct
\* path, self.quick_stats on the quick path.
Bucket(dq) == IF dq THEN "direct" ELSE "quick"

\* end_event: the sample is recorded and the terminal sentinel yielded.
EndEvent ==
  /\ phase = "end"
  /\ LET total_time == clock
         large_time == clock - large_start
         first == IF first_time = <<>> THEN total_time ELSE first_time[1]
         sample == IF disable_quick
                     THEN [first |-> first, total |-> total_time,
                           quick |-> <<>>, large |-> <<total_time>>]
                     ELSE [first |-> quick_time, total |-> total_time,
                           quick |-> <<quick_time>>,
                           large |-> <<large_time>>]
     IN IF Bucket(disable_quick) = "direct"
          THEN /\ direct_stats' =
                    AddRequest(direct_stats, sample.first, sample.total,
                               sample.quick, sample.large, StatsMaxEntries)
               /\ UNCHANGED quick_stats
          ELSE /\ quick_stats' =
                    AddRequest(quick_stats, sample.first, sample.total,
                               sample.quick, sample.large, StatsMaxEntries)
               /\ UNCHANGED direct_stats
  /\ out' = Append(out, DoneItem)
  /\ phase' = NextPhase(phase)
  /\ UNCHANGED <<is_ollama, disable_quick, model_len, frames, cuts, nerr,
                 buffer, clock, quick_time, large_start, first_time>>
  /\ UNCHANGED handlerVars
  /\ UNCHANGED <<retryVars, statsVars, calcVars, quickVars, connVars>>

(***************************************************************************)
(* execute_with_retry: one call of the retry executor.  The operation's    *)
(* outcome at each invocation is an input.  attempt is a u32; with         *)
(* max_retries <= 10 (Config::validate) it stays far from the width.       *)
(***************************************************************************)
Outcomes == {"ok", "timeout", "http"}

\* response.status().is_success(), or not.
StatusClasses == {"2xx", "non2xx"}

NoCallResult == [ok |-> FALSE, error |-> None]

RetryInit ==
  /\ max_retries \in 0..Min(MaxRetriesBound, MaxRetriesLimit)
  /\ attempt = 0
  /\ last_error = <<>>
  /\ history = <<>>
  /\ sleeps = <<>>
  /\ retry_pc = "loop"
  /\ result = [ok |-> FALSE, error |-> <<>>]
  /\ caller \in {"small", "large"}
  /\ http_status = None
  /\ call_result = NoCallResult

\* Mutant: the loop stops one attempt early.
LoopGuardShort(a, m) == a < m

\* while attempt <= max_retries
LoopGuard(a, m) == a <= m

\* Mutant: the delay grows linearly.
DelayLinear(a) == BackoffUnitMs * a

\* Duration::from_millis((100 * attempt.pow(2)) as u64)
Delay(a) == BackoffUnitMs * a * a

\* One iteration of the loop: the operation is invoked once.
RetryAttempt ==
  /\ retry_pc = "loop"
  /\ LoopGuard(attempt, max_retries)
  /\ attempt' = attempt + 1
  /\ \E outcome \in Outcomes :
       /\ history' = Append(history, outcome)
       /\ IF outcome = "ok"
            THEN /\ result' = [ok |-> TRUE, error |-> <<>>]
                 /\ retry_pc' = "returned"
                 /\ \E st \in StatusClasses : http_status' = st
                 /\ UNCHANGED <<last_error, sleeps>>
            ELSE /\ last_error' = <<[kind |-> outcome, attempt |-> attempt']>>
                 /\ sleeps' = IF attempt' <= max_retries
                                THEN Append(sleeps, Delay(attempt'))
                                ELSE sleeps
                 /\ UNCHANGED <<result, retry_pc, http_status>>
  /\ UNCHANGED <<max_retries, caller, call_result>>
  /\ UNCHANGED <<streamVars, statsVars, calcVars, quickVars, connVars>>

\* The loop is left: Err(last_error.unwrap()).
RetryExhausted ==
  /\ retry_pc = "loop"
  /\ ~LoopGuard(attempt, max_retries)
  /\ result' = [ok |-> FALSE, error |-> last_error]
  /\ retry_pc' = "returned"
  /\ UNCHANGED <<max_retries, attempt, last_error, history, sleeps, caller,
                 http_status, call_result>>
  /\ UNCHANGED <<streamVars, statsVars, calcVars, quickVars, connVars>>

\* The error call_small_model returns for a failed call: the operation
\* wraps send() in tokio's timeout and tags the two failures; a non-2xx
\* response becomes LoroError::ApiError.
SmallCallError(outcome) ==
  CASE outcome = "timeout" -> "Timeout"
    [] outcome = "http" -> "HttpClient"
    [] OTHER -> "ApiError"

\* What follows the executor's return in call_small_model and in
\* get_large_model_stream: "?" passes its error on, and an Ok response is
\* then tested with response.status().is_success().
CheckStatus ==
  /\ retry_pc = "returned"
  /\ LET outcome == IF result.ok THEN "status" ELSE result.error[1].kind
         error == IF caller = "small" THEN SmallCallError(outcome)
                                       ELSE LargeCallError(outcome)
     IN call_result' = IF result.ok /\ http_status = "2xx"
                         THEN [ok |-> TRUE, error |-> None]
                         ELSE [ok |-> FALSE, error |-> error]
  /\ retry_pc' = "done"
  /\ UNCHANGED <<max_retries, attempt, last_error, history, sleeps, result,
                 caller, http_status>>
  /\ UNCHANGED <<streamVars, statsVars, calcVars, quickVars, connVars>>

(***************************************************************************)
(* StatsCollector (src/src/stats.rs).  A call takes its locks one at a     *)
(* time, in order; other tasks may run between two acquisitions.           *)
(***************************************************************************)
Tasks == 1..MaxTasks
Locks == 1..5
NoArgs == [first |-> 0, total |-> 0, quick |-> <<>>, large |-> <<>>]
NoSnap == [count |-> 0, first |-> 0, total |-> 0, quick |-> 0, large |-> 0]

\* The (first_response_time, total_time, quick_time, large_time) the model
\* records: an Option is <<>> or <<v>>.
RecordInputs ==
  { [first |-> 1, total |-> 2, quick |-> <<1>>, large |-> <<2>>],
    [first |-> 2, total |-> 2, quick |-> <<>>, large |-> <<2>>] }

StatsInit ==
  /\ max_entries \in 0..MaxEntriesBound
  /\ first_response_times = <<>>
  /\ total_response_times = <<>>
  /\ quick_response_times = <<>>
  /\ large_model_times = <<>>
  /\ request_count = 0
  /\ writer = [l \in Locks |-> 0]
  /\ readers = [l \in Locks |-> {}]
  /\ pc = [t \in Tasks |-> "idle"]
  /\ nheld = [t \in Tasks |-> 0]
  /\ args = [t \in Tasks |-> NoArgs]
  /\ local = [t \in Tasks |-> 0]
  /\ snap = [t \in Tasks |-> NoSnap]
  /\ n_add = 0
  /\ n_reset = 0
  /\ n_get = 0
  /\ panicked = FALSE
  /\ n_partial = 0
  /\ ret = [t \in Tasks |-> 0]
  /\ metrics = [t \in Tasks |-> <<>>]

\* Mutant: a write lock that excludes nobody.
WriteFreeAlways(l) == TRUE

\* RwLock::write returns when nobody holds the lock.
WriteFree(l) == writer[l] = 0 /\ readers[l] = {}

\* Mutant: a read lock that waits for nobody.
ReadFreeAlways(l) == TRUE

\* RwLock::read returns when no writer holds the lock.
ReadFree(l) == writer[l] = 0

\* A task starts a call; the model stops issuing calls after MaxOps.
CanCall(t) ==
  /\ pc[t] = "idle"
  /\ ~panicked
  /\ n_add + n_reset + n_get < MaxOps

CallAddRequest ==
  \E t \in Tasks :
    /\ CanCall(t)
    /\ \E a \in RecordInputs :
         /\ args' = [args EXCEPT ![t] = a]
         /\ n_partial' = IF a.quick = <<>> \/ a.large = <<>>
                           THEN n_partial + 1 ELSE n_partial
    /\ pc' = [pc EXCEPT ![t] = "add_lock"]
    /\ n_add' = n_add + 1
    /\ UNCHANGED <<max_entries, first_response_times, total_response_times,
                   quick_response_times, large_model_times, request_count,
                   writer, readers, nheld, local, snap, n_reset, n_get,
                   panicked>>
    /\ UNCHANGED <<ret, metrics>>
    /\ UNCHANGED <<streamVars, retryVars, calcVars, quickVars, connVars>>

CallGetStats ==
  \E t \in Tasks :
    /\ CanCall(t)
    /\ pc' = [pc EXCEPT ![t] = "get_lock"]
    /\ n_get' = n_get + 1
    /\ UNCHANGED <<max_entries, first_response_times, total_response_times,
                   quick_response_times, large_model_times, request_count,
                   writer, readers, nheld, args, local, snap, n_add, n_reset,
                   panicked>>
    /\ UNCHANGED <<n_partial, ret, metrics>>
    /\ UNCHANGED <<streamVars, retryVars, calcVars, quickVars, connVars>>

CallReset ==
  \E t \in Tasks :
    /\ CanCall(t)
    /\ pc' = [pc EXCEPT ![t] = "reset_lock"]
    /\ n_reset' = n_reset + 1
    /\ UNCHANGED <<max_entries, first_response_times, total_response_times,
                   quick_response_times, large_model_times, request_count,
                   writer, readers, nheld, args, local, snap, n_add, n_get,
                   panicked>>
    /\ UNCHANGED <<n_partial, ret, metrics>>
    /\ UNCHANGED <<streamVars, retryVars, calcVars, quickVars, connVars>>

\* A task calls get_request_count.
CallGetRequestCount ==
  \E t \in Tasks :
    /\ CanCall(t)
    /\ pc' = [pc EXCEPT ![t] = "count"]
    /\ n_get' = n_get + 1
    /\ UNCHANGED <<max_entries, first_response_times, total_response_times,
                   quick_response_times, large_model_times, request_count,
                   writer, readers, nheld, args, local, snap, n_add, n_reset,
                   panicked>>
    /\ UNCHANGED <<n_partial, ret, metrics>>
    /\ UNCHANGED <<streamVars, retryVars, calcVars, quickVars, connVars>>

\* A task calls get_avg_first_response_time.
CallGetAvg ==
  \E t \in Tasks :
    /\ CanCall(t)
    /\ pc' = [pc EXCEPT ![t] = "avg"]
    /\ n_get' = n_get + 1
    /\ UNCHANGED <<max_entries, first_response_times, total_response_times,
                   quick_response_times, large_model_times, request_count,
                   writer, readers, nheld, args, local, snap, n_add, n_reset,
                   panicked>>
    /\ UNCHANGED <<n_partial, ret, metrics>>
    /\ UNCHANGED <<streamVars, retryVars, calcVars, quickVars, connVars>>

\* A task calls LoroService::get_metrics, seen from one of the two
\* collectors: get_stats, then get_avg_first_response_time, then
\* get_request_count, each taking and dropping its own guards.
CallGetMetrics ==
  \E t \in Tasks :
    /\ CanCall(t)
    /\ pc' = [pc EXCEPT ![t] = "m_lock"]
    /\ n_get' = n_get + 1
    /\ metrics' = [metrics EXCEPT ![t] = <<>>]
    /\ UNCHANGED <<max_entries, first_response_times, total_response_times,
                   quick_response_times, large_model_times, request_count,
                   writer, readers, nheld, args, local, snap, n_add, n_reset,
                   panicked>>
    /\ UNCHANGED <<n_partial, ret>>
    /\ UNCHANGED <<streamVars, retryVars, calcVars, quickVars, connVars>>

\* Mutant: reset takes its locks in the opposite order.
NextLockResetReversed(call, held) ==
  IF call = "reset_lock" THEN 5 - held ELSE held + 1

\* The lock a call takes next when it holds `held` of them: every method
\* takes the five in the order of the fields.
NextLock(call, held) == held + 1

\* add_request and reset: the next .write() of the five.
AcquireWrite ==
  \E t \in Tasks :
    /\ pc[t] \in {"add_lock", "reset_lock"}
    /\ WriteFree(NextLock(pc[t], nheld[t]))
    /\ writer' = [writer EXCEPT ![NextLock(pc[t], nheld[t])] = t]
    /\ nheld' = [nheld EXCEPT ![t] = @ + 1]
    /\ pc' = [pc EXCEPT ![t] =
                IF nheld[t] + 1 < 5 THEN @
                ELSE IF @ = "add_lock" THEN "add_push" ELSE "reset_body"]
    /\ UNCHANGED <<max_entries, first_response_times, total_response_times,
                   quick_response_times, large_model_times, request_count,
                   readers, args, local, snap, n_add, n_reset, n_get,
                   panicked>>
    /\ UNCHANGED <<n_partial, ret, metrics>>
    /\ UNCHANGED <<streamVars, retryVars, calcVars, quickVars, connVars>>

\* get_stats: the next .read() of the five.
AcquireRead ==
  \E t \in Tasks :
    /\ pc[t] \in {"get_lock", "m_lock"}
    /\ ReadFree(NextLock(pc[t], nheld[t]))
    /\ readers' = [readers EXCEPT ![NextLock(pc[t], nheld[t])] = @ \cup {t}]
    /\ nheld' = [nheld EXCEPT ![t] = @ + 1]
    /\ pc' = [pc EXCEPT ![t] =
                IF nheld[t] + 1 < 5 THEN @
                ELSE IF @ = "get_lock" THEN "get_read" ELSE "m_read"]
    /\ UNCHANGED <<max_entries, first_response_times, total_response_times,
                   quick_response_times, large_model_times, request_count,
                   writer, args, local, snap, n_add, n_reset, n_get,
                   panicked>>
    /\ UNCHANGED <<n_partial, ret, metrics>>
    /\ UNCHANGED <<streamVars, retryVars, calcVars, quickVars, connVars>>

\* add_request, the pushes, and the read of *count for *count += 1.
AddPush ==
  \E t \in Tasks :
    /\ pc[t] = "add_push"
    /\ first_response_times' = Append(first_response_times, args[t].first)
    /\ total_response_times' = Append(total_response_times, args[t].total)
    /\ quick_response_times' = quick_response_times \o args[t].quick
    /\ large_model_times' = large_model_times \o args[t].large
    /\ local' = [local EXCEPT ![t] = request_count]
    /\ pc' = [pc EXCEPT ![t] = "add_commit"]
    /\ UNCHANGED <<max_entries, request_count, writer, readers, nheld, args,
                   snap, n_add, n_reset, n_get, panicked>>
    /\ UNCHANGED <<n_partial, ret, metrics>>
    /\ UNCHANGED <<streamVars, retryVars, calcVars, quickVars, connVars>>

\* Mutant: the counter follows the eviction.
AddCommitCountKept ==
  \E t \in Tasks :
    /\ pc[t] = "add_commit"
    /\ LET e == Evict(first_response_times, total_response_times,
                      quick_response_times, large_model_times, max_entries)
       IN /\ first_response_times' = e.first
          /\ total_response_times' = e.total
          /\ quick_response_times' = e.quick
          /\ large_model_times' = e.large
          /\ panicked' = e.panicked
          /\ request_count' = Len(e.first)
    /\ writer' = [l \in Locks |-> IF writer[l] = t THEN 0 ELSE writer[l]]
    /\ nheld' = [nheld EXCEPT ![t] = 0]
    /\ pc' = [pc EXCEPT ![t] = "idle"]
    /\ UNCHANGED <<max_entries, readers, args, local, snap, n_add, n_reset,
                   n_get>>
    /\ UNCHANGED <<n_partial, ret, metrics>>
    /\ UNCHANGED <<streamVars, retryVars, calcVars, quickVars, connVars>>

\* add_request, the write of *count, the eviction and the return, which
\* drops the guards.
AddCommit ==
  \E t \in Tasks :
    /\ pc[t] = "add_commit"
    /\ request_count' = local[t] + 1
    /\ LET e == Evict(first_response_times, total_response_times,
                      quick_response_times, large_model_times, max_entries)
       IN /\ first_response_times' = e.first
          /\ total_response_times' = e.total
          /\ quick_response_times' = e.quick
          /\ large_model_times' = e.large
          /\ panicked' = e.panicked
    /\ writer' = [l \in Locks |-> IF writer[l] = t THEN 0 ELSE writer[l]]
    /\ nheld' = [nheld EXCEPT ![t] = 0]
    /\ pc' = [pc EXCEPT ![t] = "idle"]
    /\ UNCHANGED <<max_entries, readers, args, local, snap, n_add, n_reset,
                   n_get>>
    /\ UNCHANGED <<n_partial, ret, metrics>>
    /\ UNCHANGED <<streamVars, retryVars, calcVars, quickVars, connVars>>

\* get_stats with the five read guards held, and the return.
GetStats ==
  \E t \in Tasks :
    /\ pc[t] \in {"get_read", "m_read"}
    /\ snap' = [snap EXCEPT ![t] =
                  [count |-> request_count,
                   first |-> Len(first_response_times),
                   total |-> Len(total_response_times),
                   quick |-> Len(quick_response_times),
                   large |-> Len(large_model_times)]]
    /\ readers' = [l \in Locks |-> readers[l] \ {t}]
    /\ nheld' = [nheld EXCEPT ![t] = 0]
    /\ pc' = [pc EXCEPT ![t] = IF @ = "get_read" THEN "idle" ELSE "m_avg"]
    /\ UNCHANGED <<max_entries, first_response_times, total_response_times,
                   quick_response_times, large_model_times, request_count,
                   writer, args, local, n_add, n_reset, n_get, panicked>>
    /\ UNCHANGED <<n_partial, ret, metrics>>
    /\ UNCHANGED <<streamVars, retryVars, calcVars, quickVars, connVars>>

\* get_avg_first_response_time: the read guard of first_response_times is
\* taken, the mean computed, the guard dropped.
GetAvg ==
  \E t \in Tasks :
    /\ pc[t] \in {"avg", "m_avg"}
    /\ ReadFree(1)
    /\ ret' = [ret EXCEPT ![t] =
                 get_avg_first_response_time(first_response_times)]
    /\ pc' = [pc EXCEPT ![t] = IF @ = "avg" THEN "idle" ELSE "m_count"]
    /\ UNCHANGED <<max_entries, first_response_times, total_response_times,
                   quick_response_times, large_model_times, request_count,
                   writer, readers, nheld, args, local, snap, n_add, n_reset,
                   n_get, panicked, n_partial, metrics>>
    /\ UNCHANGED <<streamVars, retryVars, calcVars, quickVars, connVars>>

\* get_request_count: the read guard of request_count is taken, the
\* counter copied, the guard dropped.  At the end of get_metrics the copy
\* goes into "comparison" next to the total_requests of the snapshot.
GetRequestCount ==
  \E t \in Tasks :
    /\ pc[t] \in {"count", "m_count"}
    /\ ReadFree(5)
    /\ IF pc[t] = "count"
         THEN /\ ret' = [ret EXCEPT ![t] = request_count]
              /\ UNCHANGED metrics
         ELSE /\ metrics' = [metrics EXCEPT ![t] =
                               <<[total_requests |-> snap[t].count,
                                  mode_requests |-> request_count]>>]
              /\ UNCHANGED ret
    /\ pc' = [pc EXCEPT ![t] = "idle"]
    /\ UNCHANGED <<max_entries, first_response_times, total_response_times,
                   quick_response_times, large_model_times, request_count,
                   writer, readers, nheld, args, local, snap, n_add, n_reset,
                   n_get, panicked, n_partial>>
    /\ UNCHANGED <<streamVars, retryVars, calcVars, quickVars, connVars>>

\* Mutant: a reset that leaves the request counter alone.
ResetKeepCount ==
  \E t \in Tasks :
    /\ pc[t] = "reset_body"
    /\ first_response_times' = <<>>
    /\ total_response_times' = <<>>
    /\ quick_response_times' = <<>>
    /\ large_model_times' = <<>>
    /\ writer' = [l \in Locks |-> IF writer[l] = t THEN 0 ELSE writer[l]]
    /\ nheld' = [nheld EXCEPT ![t] = 0]
    /\ pc' = [pc EXCEPT ![t] = "idle"]
    /\ UNCHANGED <<max_entries, request_count, readers, args, local, snap,
                   n_add, n_reset, n_get, panicked>>
    /\ UNCHANGED <<n_partial, ret, metrics>>
    /\ UNCHANGED <<streamVars, retryVars, calcVars, quickVars, connVars>>

\* reset with the five write guards held, and the return.
Reset ==
  \E t \in Tasks :
    /\ pc[t] = "reset_body"
    /\ first_response_times' = <<>>
    /\ total_response_times' = <<>>
    /\ quick_response_times' = <<>>
    /\ large_model_times' = <<>>
    /\ request_count' = 0
    /\ writer' = [l \in Locks |-> IF writer[l] = t THEN 0 ELSE writer[l]]
    /\ nheld' = [nheld EXCEPT ![t] = 0]
    /\ pc' = [pc EXCEPT ![t] = "idle"]
    /\ UNCHANGED <<max_entries, readers, args, local, snap, n_add, n_reset,
                   n_get, panicked>>
    /\ UNCHANGED <<n_partial, ret, metrics>>
    /\ UNCHANGED <<streamVars, retryVars, calcVars, quickVars, connVars>>

(***************************************************************************)
(* Several client streams in flight (service.rs, stream_direct_response    *)
(* and get_large_model_stream).  A stream is a value the caller polls:     *)
(* the service spawns no task, so a stage of a stream runs only inside a   *)
(* poll, and a stream the caller has dropped is never polled again.        *)
(***************************************************************************)
Requests == 1..MaxRequests

\* The wires of the streams in flight.
ConnFrameSeqs == {<<SseLo>>, <<SseHello>>}

\* The elapsed times end_event may read, in ticks; the first item of a
\* stream arrives after one tick.
ElapsedTicks == {1, 2}

\* The sizes of the next fragment of a wire with n characters left: a
\* full fragment, or all that is left.
ConnFragments(n) == {Min(FragmentBytes, n), n}

ConnInit ==
  /\ conn_frames \in ConnFrameSeqs
  /\ conn_phase = [r \in Requests |-> "large"]
  /\ conn_pos = [r \in Requests |-> 0]
  /\ conn_buffer = [r \in Requests |-> <<>>]
  /\ conn_out = [r \in Requests |-> <<>>]

\* Mutant: the stages keep running after the caller dropped the stream.
CanPollDropped(p, stage) == p \in {stage, "dropped"}

\* The stage of a stream that a poll runs: the one the stream is at.
CanPoll(p, stage) == p = stage

\* The caller polls stream r and its byte stream yields Ok(bytes).
PollFragment ==
  \E r \in Requests :
    /\ CanPoll(conn_phase[r], "large")
    /\ conn_pos[r] < Len(Wire(conn_frames))
    /\ \E k \in ConnFragments(Len(Wire(conn_frames)) - conn_pos[r]) :
         LET bytes == SubSeq(Wire(conn_frames), conn_pos[r] + 1,
                             conn_pos[r] + k)
             d == DecodeFragment(conn_buffer[r], bytes, is_ollama, model_len)
         IN /\ conn_buffer' = [conn_buffer EXCEPT ![r] = d.remaining]
            /\ conn_out' = [conn_out EXCEPT ![r] = @ \o d.results]
            /\ conn_pos' = [conn_pos EXCEPT ![r] = @ + k]
    /\ UNCHANGED <<conn_frames, conn_phase>>
    /\ UNCHANGED <<streamVars, retryVars, statsVars, calcVars, quickVars>>

\* The caller polls stream r and its byte stream has ended.
PollEnd ==
  \E r \in Requests :
    /\ CanPoll(conn_phase[r], "large")
    /\ conn_pos[r] = Len(Wire(conn_frames))
    /\ conn_phase' = [conn_phase EXCEPT ![r] = NextPhase(@)]
    /\ UNCHANGED <<conn_frames, conn_pos, conn_buffer, conn_out>>
    /\ UNCHANGED <<streamVars, retryVars, statsVars, calcVars, quickVars>>

\* The caller polls stream r at its end_event: the sample goes to the
\* shared direct_stats and the terminal sentinel is yielded.
PollDone ==
  \E r \in Requests :
    /\ CanPoll(conn_phase[r], "end")
    /\ \E total_time \in ElapsedTicks :
         LET first == IF Count(conn_out[r], IsLargeItem) = 0
                        THEN total_time
                        ELSE 1
         IN direct_stats' =
              AddRequest(direct_stats, first, total_time, <<>>,
                         <<total_time>>, StatsMaxEntries)
    /\ conn_out' = [conn_out EXCEPT ![r] = Append(@, DoneItem)]
    /\ conn_phase' = [conn_phase EXCEPT ![r] = NextPhase(@)]
    /\ UNCHANGED <<conn_frames, conn_pos, conn_buffer>>
    /\ UNCHANGED <<is_ollama, disable_quick, model_len, frames, cuts, nerr,
                   buffer, phase, out, clock, quick_time, large_start,
                   first_time, quick_stats>>
    /\ UNCHANGED handlerVars
    /\ UNCHANGED <<retryVars, statsVars, calcVars, quickVars>>

\* The caller drops stream r before its end: with it go the byte stream and
\* the buffer it owns.
DropStream ==
  \E r \in Requests :
    /\ conn_phase[r] \in {"large", "end"}
    /\ conn_phase' = [conn_phase EXCEPT ![r] = "dropped"]
    /\ UNCHANGED <<conn_frames, conn_pos, conn_buffer, conn_out>>
    /\ UNCHANGED <<streamVars, retryVars, statsVars, calcVars, quickVars>>

(***************************************************************************)
(* The specifications.  Each one runs one component and holds the state    *)
(* of the others fixed.                                                    *)
(***************************************************************************)
StreamIdle ==
  /\ is_ollama = FALSE
  /\ disable_quick = TRUE
  /\ model_len = 1
  /\ frames = <<>>
  /\ cuts = <<>>
  /\ nerr = 0
  /\ buffer = <<>>
  /\ phase = "closed"
  /\ out = <<>>
  /\ clock = 0
  /\ quick_time = 0
  /\ large_start = 0
  /\ first_time = <<>>
  /\ quick_stats = EmptyStats
  /\ direct_stats = EmptyStats
  /\ request = GoodRequest
  /\ response = NoResponse
  /\ quick_response = <<>>
  /\ small_calls = 0
  /\ large_calls = 0
  /\ large_outcome = None

RetryIdle ==
  /\ max_retries = 0
  /\ attempt = 0
  /\ last_error = <<>>
  /\ history = <<>>
  /\ sleeps = <<>>
  /\ retry_pc = "done"
  /\ result = [ok |-> FALSE, error |-> <<>>]
  /\ caller = "small"
  /\ http_status = None
  /\ call_result = NoCallResult

StatsIdle ==
  /\ max_entries = 0
  /\ first_response_times = <<>>
  /\ total_response_times = <<>>
  /\ quick_response_times = <<>>
  /\ large_model_times = <<>>
  /\ request_count = 0
  /\ writer = [l \in Locks |-> 0]
  /\ readers = [l \in Locks |-> {}]
  /\ pc = [t \in Tasks |-> "done"]
  /\ nheld = [t \in Tasks |-> 0]
  /\ args = [t \in Tasks |-> NoArgs]
  /\ local = [t \in Tasks |-> 0]
  /\ snap = [t \in Tasks |-> NoSnap]
  /\ n_add = 0
  /\ n_reset = 0
  /\ n_get = 0
  /\ panicked = FALSE
  /\ n_partial = 0
  /\ ret = [t \in Tasks |-> 0]
  /\ metrics = [t \in Tasks |-> <<>>]

CalcIdle ==
  /\ data = <<>>
  /\ latency_stats = ZeroStats
  /\ calc_pc = "returned"

QuickIdle ==
  /\ messages = <<>>
  /\ small_reply = [kind |-> "timeout", content |-> <<>>]
  /\ quick_result = ErrText
  /\ quick_pc = "returned"
  /\ cat_message = UserMessage(<<>>)
  /\ category = "Thinking"
  /\ val_request = GoodRequest
  /\ val_result = "ok"

ConnIdle ==
  /\ conn_frames = <<>>
  /\ conn_phase = [r \in Requests |-> "closed"]
  /\ conn_pos = [r \in Requests |-> 0]
  /\ conn_buffer = [r \in Requests |-> <<>>]
  /\ conn_out = [r \in Requests |-> <<>>]

\* One client request, end to end.
Init ==
  StreamInit /\ RetryIdle /\ StatsIdle /\ CalcIdle /\ QuickIdle /\ ConnIdle

Next ==
  \/ RejectInvalid
  \/ StreamQuickResponse
  \/ StreamDirectResponse
  \/ EmitFirstChunk
  \/ UpstreamFragment
  \/ UpstreamError
  \/ UpstreamEnd
  \/ EndEvent

Spec == Init /\ [][Next]_vars

\* Requests whose model name is so long that a chunk of two characters is
\* the largest that serializes to 1 MiB: the quick chunk of the small
\* model's text fits and that of a fallback text does not, the frame "lo"
\* fits and the frame "Hello" does not.
NearLimitLen == MaxChunkBytes - ChunkOverhead - Len(QuickText)

OversizeInit ==
  /\ is_ollama \in BOOLEAN
  /\ disable_quick \in BOOLEAN
  /\ model_len = NearLimitLen
  /\ frames \in FrameSeqs(IF is_ollama THEN {NdLo, NdHello}
                                        ELSE {SseLo, SseHello})
  /\ cuts = <<>>
  /\ nerr = 0
  /\ buffer = <<>>
  /\ phase = "request"
  /\ out = <<>>
  /\ clock = 0
  /\ quick_time = 0
  /\ large_start = 0
  /\ first_time = <<>>
  /\ quick_stats = EmptyStats
  /\ direct_stats = EmptyStats
  /\ request \in ValidRequests \cup InvalidRequests
  /\ response = NoResponse
  /\ quick_response = <<>>
  /\ small_calls = 0
  /\ large_calls = 0
  /\ large_outcome = None

InitOversize ==
  OversizeInit /\ RetryIdle /\ StatsIdle /\ CalcIdle /\ QuickIdle /\ ConnIdle

SpecOversize == InitOversize /\ [][Next]_vars

\* The decoder alone: one direct-path stream over every wire of the frame
\* catalogue, already started, with no transport error.
DecoderInit ==
  /\ is_ollama \in BOOLEAN
  /\ disable_quick = TRUE
  /\ model_len = 1
  /\ frames \in FrameSeqs(IF is_ollama THEN NdFrames ELSE SseFrames)
  /\ cuts = <<>>
  /\ nerr = 0
  /\ buffer = <<>>
  /\ phase = "large"
  /\ out = <<>>
  /\ clock = 1
  /\ quick_time = 0
  /\ large_start = 0
  /\ first_time = <<>>
  /\ quick_stats = EmptyStats
  /\ direct_stats = EmptyStats
  /\ request = GoodRequest
  /\ response = OkResponse
  /\ quick_response = <<>>
  /\ small_calls = 0
  /\ large_calls = 1
  /\ large_outcome = "ok"
  /\ RetryIdle
  /\ StatsIdle
  /\ CalcIdle
  /\ QuickIdle
  /\ ConnIdle

DecoderNext ==
  \/ UpstreamFragment
  \/ UpstreamEnd
  \/ EndEvent

SpecDecoder == DecoderInit /\ [][DecoderNext]_vars

\* One call of the retry executor.
RetryNext ==
  \/ RetryAttempt
  \/ RetryExhausted
  \/ CheckStatus

InitRetry ==
  RetryInit /\ StreamIdle /\ StatsIdle /\ CalcIdle /\ QuickIdle /\ ConnIdle

SpecRetry == InitRetry /\ [][RetryNext]_vars

\* Concurrent tasks on one StatsCollector.
StatsNext ==
  \/ CallAddRequest
  \/ CallGetStats
  \/ CallReset
  \/ CallGetRequestCount
  \/ CallGetAvg
  \/ CallGetMetrics
  \/ AcquireWrite
  \/ AcquireRead
  \/ AddPush
  \/ AddCommit
  \/ GetStats
  \/ GetAvg
  \/ GetRequestCount
  \/ Reset

InitStats ==
  StatsInit /\ StreamIdle /\ RetryIdle /\ CalcIdle /\ QuickIdle /\ ConnIdle

SpecStats == InitStats /\ [][StatsNext]_vars

\* The steps of the calls in progress.  A task blocked in .write() or
\* .read() is woken when the lock is released, and a task that can run is
\* scheduled: the steps are taken if they stay possible.
StatsProgress ==
  \/ AcquireWrite
  \/ AcquireRead
  \/ AddPush
  \/ AddCommit
  \/ GetStats
  \/ GetAvg
  \/ GetRequestCount
  \/ Reset

\* The collector of the service, with the default max_entries, after one
\* reading call has come and gone.
InitStatsLive ==
  /\ max_entries = StatsMaxEntries
  /\ first_response_times = <<>>
  /\ total_response_times = <<>>
  /\ quick_response_times = <<>>
  /\ large_model_times = <<>>
  /\ request_count = 0
  /\ writer = [l \in Locks |-> 0]
  /\ readers = [l \in Locks |-> {}]
  /\ pc = [t \in Tasks |-> "idle"]
  /\ nheld = [t \in Tasks |-> 0]
  /\ args = [t \in Tasks |-> NoArgs]
  /\ local = [t \in Tasks |-> 0]
  /\ snap = [t \in Tasks |-> NoSnap]
  /\ n_add = 0
  /\ n_reset = 0
  /\ n_get = 1
  /\ panicked = FALSE
  /\ n_partial = 0
  /\ ret = [t \in Tasks |-> 0]
  /\ metrics = [t \in Tasks |-> <<>>]
  /\ StreamIdle
  /\ RetryIdle
  /\ CalcIdle
  /\ QuickIdle
  /\ ConnIdle

SpecStatsLive ==
  InitStatsLive /\ [][StatsNext]_vars /\ WF_vars(StatsProgress)

\* One call of calculate_stats.
CalcInit ==
  /\ data \in SampleSeqs \cup FiveSamples
  /\ latency_stats = ZeroStats
  /\ calc_pc = "call"

CalculateStats ==
  /\ calc_pc = "call"
  /\ latency_stats' = calculate_stats(data)
  /\ calc_pc' = "returned"
  /\ UNCHANGED data
  /\ UNCHANGED <<streamVars, retryVars, statsVars, quickVars, connVars>>

CalcNext == CalculateStats

InitCalc ==
  CalcInit /\ StreamIdle /\ RetryIdle /\ StatsIdle /\ QuickIdle /\ ConnIdle

SpecCalc == InitCalc /\ [][CalcNext]_vars

\* One call of get_quick_response.
QuickInit ==
  /\ messages \in MessageLists
  /\ small_reply \in SmallReplies
  /\ quick_result = ErrText
  /\ quick_pc = "call"
  /\ cat_message \in {UserMessage(c) : c \in CategorizeContents}
  /\ category = "none"
  /\ val_request = GoodRequest
  /\ val_result = "ok"

GetQuickResponse ==
  /\ quick_pc = "call"
  /\ \E pick \in Picks :
       quick_result' = get_quick_response(messages, small_reply, pick)
  /\ quick_pc' = "returned"
  /\ UNCHANGED <<messages, small_reply, cat_message, category>>
  /\ UNCHANGED <<val_request, val_result>>
  /\ UNCHANGED <<streamVars, retryVars, statsVars, calcVars, connVars>>

\* One direct call of Message::categorize.
Categorize ==
  /\ category = "none"
  /\ category' = categorize(cat_message)
  /\ UNCHANGED <<messages, small_reply, quick_result, quick_pc, cat_message>>
  /\ UNCHANGED <<val_request, val_result>>
  /\ UNCHANGED <<streamVars, retryVars, statsVars, calcVars, connVars>>

QuickNext ==
  \/ GetQuickResponse
  \/ Categorize

InitQuick ==
  QuickInit /\ StreamIdle /\ RetryIdle /\ StatsIdle /\ CalcIdle /\ ConnIdle

SpecQuick == InitQuick /\ [][QuickNext]_vars

\* One direct call of ChatCompletionRequest::validate.
ValidateInit ==
  /\ messages = <<>>
  /\ small_reply = [kind |-> "timeout", content |-> <<>>]
  /\ quick_result = ErrText
  /\ quick_pc = "returned"
  /\ cat_message = UserMessage(<<>>)
  /\ category = "Thinking"
  /\ val_request \in ValidateRequests
  /\ val_result = "none"

CallValidate ==
  /\ val_result = "none"
  /\ val_result' = IF Validate(val_request) THEN "ok" ELSE "err"
  /\ UNCHANGED <<messages, small_reply, quick_result, quick_pc, cat_message,
                 category, val_request>>
  /\ UNCHANGED <<streamVars, retryVars, statsVars, calcVars, connVars>>

ValidateNext == CallValidate

InitValidate ==
  ValidateInit /\ StreamIdle /\ RetryIdle /\ StatsIdle /\ CalcIdle
    /\ ConnIdle

SpecValidate == InitValidate /\ [][ValidateNext]_vars

\* Several client streams in flight, each polled or dropped by its caller.
CancelNext ==
  \/ PollFragment
  \/ PollEnd
  \/ PollDone
  \/ DropStream

InitCancel ==
  ConnInit /\ StreamIdle /\ RetryIdle /\ StatsIdle /\ CalcIdle /\ QuickIdle

SpecCancel == InitCancel /\ [][CancelNext]_vars

(***************************************************************************)
(* Claims about the composed stream and the decoder.                       *)
(***************************************************************************)
IsChunk(it) == it.kind = "chunk"
IsApology(it) ==
  it.kind = "chunk" /\ it.content = ApologyText /\ it.finish_reason = "stop"
IsErrorItem(it) == it.kind = "error"
IsTooLarge(it) == it = ErrItem("Error chunk too large")

\* The chunks of the large-model stream among the items yielded so far.
LargeChunks == SelectSeq(out, IsChunk)

\* The upstream has ended and the decoder has seen all of it.
Ended == phase \in {"end", "closed"}

\* Every fragment delivered so far ended on a line terminator.
Aligned == \A i \in 1..Len(cuts) : Wire(frames)[cuts[i]] = "\n"

\* What the frames yield when each is delivered whole, alone, on a fresh
\* connection: the chunk each frame stands for.
RECURSIVE WholeFrameChunks(_, _)
WholeFrameChunks(fs, ollama) ==
  IF fs = <<>> THEN <<>>
  ELSE DecodeFragment(<<>>, Head(fs) \o <<"\n">>, ollama, 1).results
         \o WholeFrameChunks(Tail(fs), ollama)

Range(f) == {f[i] : i \in DOMAIN f}

\* C1: within one request the items come in the order quick chunk (quick
\* path only, once, first), large-model chunks, [DONE]: an item is the
\* quick chunk exactly when it is the first item of a quick-path stream,
\* and nothing follows [DONE].
C1_Ordering ==
  \A i \in 1..Len(out) :
    /\ (out[i].kind = "quick") <=> (i = 1 /\ ~disable_quick)
    /\ (out[i].kind = "done") => (i = Len(out))
    /\ (phase = "closed") => (out[Len(out)].kind = "done")

C1_Witness ==
  /\ phase = "closed"
  /\ ~disable_quick
  /\ Len(out) >= 4
  /\ out[1].kind = "quick"
  /\ out[2].kind = "chunk"

\* C2: a stream consumed to its end holds exactly one [DONE] item, the
\* last one, whatever the upstream delivered; a "data: [DONE]" line of the
\* upstream is not forwarded.
C2_OneDoneLast ==
  (phase = "closed") =>
    /\ Len(out) >= 1
    /\ out[Len(out)] = DoneItem
    /\ \A i \in 1..(Len(out) - 1) :
         out[i].kind # "done" /\ out[i].content # DoneText

C2_Witness ==
  /\ phase = "closed"
  /\ SseDone \in Range(frames)
  /\ nerr > 0
  /\ Len(out) >= 3

\* C3: an SSE data line split into two fragments yields exactly one chunk,
\* the one the whole line yields.
C3_Reassembly ==
  ( /\ ~is_ollama
    /\ Ended
    /\ \E f \in {SseHello, SseLo} : frames \in {<<f>>, <<f, Blank>>} )
  => /\ Len(LargeChunks) = 1
     /\ LargeChunks = WholeFrameChunks(frames, FALSE)

\* C4: a malformed frame yields nothing and does not disturb the frames
\* after it: with whole lines delivered, the chunks are those of the
\* well-formed frames.
C4_MalformedSkipped ==
  ( /\ Ended
    /\ Aligned
    /\ Range(frames) \subseteq
         (IF is_ollama THEN {NdHello, NdLo, NdBad}
                       ELSE {SseHello, SseLo, SseBad})
    /\ Range(frames) \cap {NdBad, SseBad} # {} )
  => /\ LargeChunks = WholeFrameChunks(frames, is_ollama)
     /\ \A i \in 1..Len(out) : ~IsErrorItem(out[i])

\* C5: after a "data: [DONE]" line no frame of the connection produces a
\* chunk.
C5_DoneEndsDecoding ==
  (~is_ollama /\ frames[1] = SseDone) => LargeChunks = <<>>

\* C6: a line that is not a data line is ignored: with whole lines
\* delivered, the chunks are those of the data lines.
C6_NonDataIgnored ==
  ( /\ ~is_ollama
    /\ Ended
    /\ Aligned
    /\ Range(frames) \subseteq {SseHello, SseLo, SseComment, SseEvent, Blank}
    /\ Range(frames) \cap {SseComment, SseEvent} # {} )
  => LargeChunks = WholeFrameChunks(frames, FALSE)

FirstOk(h) ==
  IF \E i \in 1..Len(h) : h[i] = "ok"
    THEN CHOOSE i \in 1..Len(h) :
           h[i] = "ok" /\ \A j \in 1..(i - 1) : h[j] # "ok"
    ELSE 0

\* C8: the operation is invoked min(k, max_retries + 1) times, k the first
\* attempt that succeeds: an operation that always fails is invoked
\* max_retries + 1 times and the last attempt's error is returned; nothing
\* is invoked after a success, and the success is returned.
C8_RetryCount ==
  /\ \A i \in 1..(Len(history) - 1) : history[i] # "ok"
  /\ Len(history) <= max_retries + 1
  /\ (retry_pc # "loop") =>
       IF FirstOk(history) # 0
         THEN Len(history) = FirstOk(history) /\ result.ok
         ELSE /\ Len(history) = max_retries + 1
              /\ ~result.ok
              /\ result.error =
                   <<[kind |-> history[Len(history)],
                      attempt |-> Len(history)]>>

C8_Witness ==
  /\ retry_pc = "returned"
  /\ max_retries >= 2
  /\ Len(history) = max_retries + 1
  /\ ~result.ok

(***************************************************************************)
(* Claims about the stats engine.                                          *)
(***************************************************************************)
AllIdle == \A t \in Tasks : pc[t] = "idle"

\* C9: with no reset, once every call has returned the request counter is
\* the number of add_request calls issued, whatever the interleaving of
\* the tasks and of the snapshot reads.
C9_NoLostUpdate ==
  (AllIdle /\ n_reset = 0) => request_count = n_add

C9_Witness ==
  /\ AllIdle
  /\ n_reset = 0
  /\ n_add >= 2
  /\ request_count = n_add
  /\ \E t \in Tasks : snap[t].count = 1

\* C10: after every record call the first-response sequence holds at most
\* max_entries samples, for every max_entries from 0 up, and no call
\* panics.
C10_Bounded ==
  /\ ~panicked
  /\ (\A t \in Tasks : pc[t] # "add_commit") =>
       Len(first_response_times) <= max_entries

C10_Witness ==
  /\ AllIdle
  /\ max_entries = 0
  /\ n_add >= 2
  /\ n_reset = 0
  /\ request_count = n_add
  /\ first_response_times = <<>>

\* C11: after reset(), whatever was recorded or evicted before, the request
\* counter is 0, the first-response average is 0 and the snapshot reports
\* avg = min = max = p50 = p95 = 0 for each of the four sequences.
C11_ResetZero ==
  [][ (\E t \in Tasks : pc[t] = "reset_body" /\ pc'[t] = "idle")
        => /\ request_count' = 0
           /\ get_avg_first_response_time(first_response_times') = 0
           /\ get_stats(request_count', first_response_times',
                        total_response_times', quick_response_times',
                        large_model_times')
                = [total_requests |-> 0,
                   first_response_latency |-> ZeroStats,
                   total_response_latency |-> ZeroStats,
                   quick_response_latency |-> ZeroStats,
                   large_model_latency |-> ZeroStats] ]_vars

\* Two records, the second of which evicted, then a reset.
C11_Witness ==
  /\ AllIdle
  /\ max_entries = 1
  /\ n_add = 2
  /\ n_reset = 1
  /\ request_count = 0
  /\ first_response_times = <<>>
  /\ large_model_times = <<>>

\* C12: the statistics of every sample sequence satisfy
\* min <= p50 <= p95 <= max and min <= avg <= max.
C12_StatsOrdered ==
  (calc_pc = "returned") =>
    /\ latency_stats.min <= latency_stats.p50
    /\ latency_stats.p50 <= latency_stats.p95
    /\ latency_stats.p95 <= latency_stats.max
    /\ latency_stats.min <= latency_stats.avg
    /\ latency_stats.avg <= latency_stats.max

\* The reference computation of the statistics, by ranks: the finite
\* samples, the sample of a given 0-based rank among them, and the largest
\* whole number not above (n - 1) * percent / 100.
FiniteAt(d) == {i \in DOMAIN d : IsFinite(d[i])}

RankValue(d, k) ==
  CHOOSE v \in {d[i] : i \in FiniteAt(d)} :
    /\ Cardinality({i \in FiniteAt(d) : d[i] < v}) <= k
    /\ k < Cardinality({i \in FiniteAt(d) : d[i] <= v})

Ascending(d) == [k \in 1..Cardinality(FiniteAt(d)) |-> RankValue(d, k - 1)]

FloorIdx(n, percent) ==
  CHOOSE k \in 0..(n - 1) :
    100 * k <= (n - 1) * percent /\ (n - 1) * percent < 100 * (k + 1)

C37_FiveSamples ==
  (calc_pc = "returned" /\ data \in FiveSamples) =>
    /\ latency_stats.avg = 3
    /\ latency_stats.min = 1
    /\ latency_stats.max = 5
    /\ latency_stats.p50 = 3
    /\ latency_stats.p95 = 5

(***************************************************************************)
(* Claims about the request handler and the two paths.                     *)
(***************************************************************************)
\* C13: a request whose stream is consumed through [DONE] adds exactly one
\* sample to exactly one bucket, the direct one when disable_quick_response
\* is set and the quick one otherwise, and nothing else changes a bucket;
\* after one completed quick-path request on a fresh service the quick
\* bucket counts 1 request.
C13_OneSample ==
  [][ IF phase = "end" /\ phase' = "closed"
        THEN /\ out' = Append(out, DoneItem)
             /\ IF disable_quick
                  THEN /\ direct_stats'.request_count =
                            direct_stats.request_count + 1
                       /\ Len(direct_stats'.first_response_times) =
                            Len(direct_stats.first_response_times) + 1
                       /\ quick_stats' = quick_stats
                  ELSE /\ quick_stats'.request_count =
                            quick_stats.request_count + 1
                       /\ Len(quick_stats'.first_response_times) =
                            Len(quick_stats.first_response_times) + 1
                       /\ quick_stats'.request_count = 1
                       /\ direct_stats' = direct_stats
        ELSE /\ quick_stats' = quick_stats
             /\ direct_stats' = direct_stats ]_vars

C13_Witness ==
  /\ phase = "closed"
  /\ ~disable_quick
  /\ Len(out) >= 3
  /\ quick_stats.request_count = 1
  /\ Len(quick_stats.quick_response_times) = 1
  /\ direct_stats = EmptyStats

\* C14: on the quick path, whatever the small model answered, the first
\* frame of the stream has the role "assistant" and a non-empty content.
C14_FirstFrame ==
  (~disable_quick /\ out # <<>>) =>
    /\ out[1].role = "assistant"
    /\ out[1].content # <<>>

\* C17: a request that fails validation is answered with status 400, type
\* invalid_request_error and code validation_failed, and causes no
\* small-model call, no large-model call and no change to a stats bucket.
C17_RejectedEarly ==
  (request \in InvalidRequests) =>
    /\ small_calls = 0
    /\ large_calls = 0
    /\ out = <<>>
    /\ quick_stats = EmptyStats
    /\ direct_stats = EmptyStats
    /\ phase \in {"request", "failed"}
    /\ (phase = "failed") =>
         /\ response.status = 400
         /\ response.type = "invalid_request_error"
         /\ response.code = "validation_failed"

C17_Witness ==
  /\ request \in InvalidRequests
  /\ request.messages = <<>>
  /\ phase = "failed"
  /\ response.status = 400
  /\ small_calls + large_calls = 0

\* C18: when the large-model call of a valid request fails, the status is
\* 502 for an upstream non-2xx status, 408 for a timeout and 500 for any
\* other failure.
C18_FailureStatus ==
  (phase = "failed" /\ large_outcome # None) =>
    response.status = CASE large_outcome = "status" -> 502
                        [] large_outcome = "timeout" -> 408
                        [] OTHER -> 500

\* C19: every error item of the composed stream reaches the caller as an
\* event with the data "[ERROR: <message>]": the events are as many as the
\* items and in their order, and a stream consumed to its end still ends
\* with the [DONE] event.
C19_ErrorsInline ==
  LET events == SseStream(out)
  IN /\ Len(events) = Len(out)
     /\ \A i \in 1..Len(out) :
          IF IsErrorItem(out[i])
            THEN events[i].data = <<"[ERROR: ", out[i].content[1], "]">>
            ELSE events[i].data = out[i].content
     /\ (phase = "closed") => events[Len(events)].data = DoneText

C19_Witness ==
  /\ phase = "closed"
  /\ Len(out) >= 2
  /\ IsErrorItem(out[1])
  /\ SseStream(out)[1].data = <<"[ERROR: ", "Error chunk too large", "]">>
  /\ SseStream(out)[Len(out)].data = DoneText

\* C20, as claimed: with disable_quick_response set the small model is not
\* called, the stream holds no quick chunk, its first item is the first
\* large-model chunk or, when there is none, [DONE], and the quick bucket
\* is unchanged.
C20_DirectFirstChunk ==
  disable_quick =>
    /\ small_calls = 0
    /\ \A i \in 1..Len(out) : out[i].kind # "quick"
    /\ quick_stats = EmptyStats
    /\ (out # <<>>) =>
         IF LargeChunks # <<>> THEN out[1] = LargeChunks[1]
                               ELSE out[1] = DoneItem

\* C20, amended: with disable_quick_response set the small model is not
\* called, the stream holds no quick chunk, its first item is the first
\* item of the large-model stream (a chunk, or the error item "Error chunk
\* too large") or, when that stream is empty, [DONE], and the quick bucket
\* is unchanged.
C20_DirectFirstItem ==
  disable_quick =>
    /\ small_calls = 0
    /\ \A i \in 1..Len(out) : out[i].kind # "quick"
    /\ quick_stats = EmptyStats
    /\ (out # <<>>) =>
         IF Count(out, IsLargeItem) > 0
           THEN /\ IsLargeItem(out[1])
                /\ IsErrorItem(out[1]) => IsTooLarge(out[1])
           ELSE out[1] = DoneItem

C20_Witness ==
  /\ disable_quick
  /\ phase = "closed"
  /\ IsTooLarge(out[1])
  /\ out[Len(out)] = DoneItem
  /\ direct_stats.request_count = 1
  /\ small_calls = 0

(***************************************************************************)
(* Claims about the Quick-Response Generator.                              *)
(***************************************************************************)
\* The small-model result is not accepted: the call failed, or its text is
\* longer than 6 code points or holds more than one punctuation mark.
NotAccepted ==
  \/ small_reply.kind # "ok"
  \/ Len(Trim(small_reply.content)) > 6
  \/ Count(Trim(small_reply.content), IsComplexPunctuation) > 1

\* C15: for a non-empty message list and any outcome of the small-model
\* call, get_quick_response returns a text of at most 6 code points and
\* never an error.
C15_ShortNeverError ==
  (quick_pc = "returned" /\ messages # <<>>) =>
    /\ quick_result.ok
    /\ Len(quick_result.text) <= 6

C15_Witness ==
  /\ quick_pc = "returned"
  /\ Len(messages) = 2
  /\ small_reply.kind = "ok"
  /\ Len(Trim(small_reply.content)) = 7
  /\ quick_result.ok
  /\ Len(quick_result.text) = 4

ConnState(r) == <<conn_pos[r], conn_buffer[r], conn_out[r]>>

\* C21: once the caller has dropped a stream, no step reads or decodes a
\* further fragment of its upstream or yields a further item of it, and it
\* records no sample; and the step that drops one stream changes nothing of
\* any other stream nor of the shared collector.
C21_DropHalts ==
  [][\A r \in Requests :
       /\ conn_phase[r] = "dropped" =>
            /\ conn_phase'[r] = "dropped"
            /\ ConnState(r)' = ConnState(r)
       /\ (conn_phase[r] # "dropped" /\ conn_phase'[r] = "dropped") =>
            /\ direct_stats' = direct_stats
            /\ \A o \in Requests \ {r} :
                 /\ conn_phase'[o] = conn_phase[o]
                 /\ ConnState(o)' = ConnState(o)]_vars

\* C21 witness: one stream was dropped in the middle of its wire and
\* another went on to its terminal sentinel and recorded its sample.
C21_Witness ==
  \E r, o \in Requests :
    /\ conn_phase[r] = "dropped"
    /\ conn_pos[r] < Len(Wire(conn_frames))
    /\ conn_pos[r] > 0
    /\ conn_phase[o] = "closed"
    /\ conn_out[o] # <<>>
    /\ conn_out[o][Len(conn_out[o])] = DoneItem
    /\ direct_stats.request_count = 1

(***************************************************************************)
(* Claims about the back-off and about upstream status failures.           *)
(***************************************************************************)
RECURSIVE SumSeq(_)
SumSeq(s) == IF s = <<>> THEN 0 ELSE Head(s) + SumSeq(Tail(s))

\* The attempts that have failed so far.
Failures == Count(history, LAMBDA o : o # "ok")

\* C22: the executor has slept once after each failed attempt k with
\* k <= max_retries, for 100 * k^2 ms, and not after the last attempt
\* allowed nor after a success; with max_retries <= 10 no delay exceeds
\* 10000 ms, the delays sum to at most 38500 ms, and 100 * k^2 fits 32
\* bits (k^2 <= 42949672 = (2^32 - 1) \div 100).
C22_Backoff ==
  /\ Len(sleeps) = Min(Failures, max_retries)
  /\ \A k \in 1..Len(sleeps) :
       /\ sleeps[k] = 100 * k * k
       /\ sleeps[k] <= 10000
       /\ k * k <= 42949672
  /\ SumSeq(sleeps) <= 38500
  /\ (retry_pc # "loop") => Len(sleeps) = Len(history) - 1

\* C22 witness: ten retries were allowed and every attempt failed; the last
\* delay was 10000 ms and the delays sum to 38500 ms.
C22_Witness ==
  /\ retry_pc = "returned"
  /\ max_retries = 10
  /\ ~result.ok
  /\ Len(history) = 11
  /\ sleeps[10] = 10000
  /\ SumSeq(sleeps) = 38500

\* C23: an upstream call whose every attempt was answered with a non-2xx
\* status has been attempted max_retries + 1 times and returns an error of
\* the kind ApiError, whichever model was called.
C23_StatusRetried ==
  (/\ retry_pc = "done"
   /\ http_status = "non2xx"
   /\ \A i \in 1..Len(history) : history[i] = "ok") =>
     /\ Len(history) = max_retries + 1
     /\ call_result = [ok |-> FALSE, error |-> "ApiError"]

(***************************************************************************)
(* Claims about the order of the quick path and about the direct sample.   *)
(***************************************************************************)
\* C24: on the quick path the large-model call is not started before the
\* quick chunk has been yielded to the caller: once a call that succeeded
\* has been made, the quick chunk is the first item already yielded.
C24_QuickBeforeLarge ==
  (~disable_quick /\ large_calls > 0 /\ large_outcome = "ok") =>
    /\ out # <<>>
    /\ out[1].kind = "quick"

\* C25: on the direct path the sample is recorded by the time the first
\* large-model item has been yielded, and its first-response value equals
\* its total value.
C25_FirstEqualsTotal ==
  disable_quick =>
    /\ (Count(out, IsLargeItem) > 0) => direct_stats.request_count = 1
    /\ direct_stats.first_response_times = direct_stats.total_response_times

\* C26: when the large-model call of a quick-path request has failed, the
\* request is over with the error response of that failure, nothing has
\* been yielded (neither the quick chunk that was generated nor [DONE]),
\* and both collectors are as they were.
C26_FailedQuickPath ==
  (~disable_quick /\ large_outcome \notin {None, "ok"}) =>
    /\ phase = "failed"
    /\ small_calls = 1
    /\ response = ErrorResponse(LargeCallError(large_outcome))
    /\ response.status >= 400
    /\ out = <<>>
    /\ SseStream(out) = <<>>
    /\ quick_stats = EmptyStats
    /\ direct_stats = EmptyStats

\* C26 witness: the quick text had been generated and its chunk passed the
\* size check when the large model answered with a non-2xx status.
C26_Witness ==
  /\ ~disable_quick
  /\ large_outcome = "status"
  /\ quick_response = QuickText
  /\ large_calls = 1
  /\ phase = "failed"
  /\ response.status = 500

(***************************************************************************)
(* Claims about the decoder and its buffer.                                *)
(***************************************************************************)
\* How many characters of the wire precede frame i.
FrameStart(fs, i) == Len(Wire(SubSeq(fs, 1, i - 1)))

\* The first fragment ended inside frame i, leaving a part of it on either
\* side.
SplitInside(i) ==
  /\ cuts # <<>>
  /\ cuts[1] > FrameStart(frames, i)
  /\ cuts[1] < FrameStart(frames, i) + Len(frames[i])

\* C27: an NDJSON line with a non-empty content that is split between two
\* consecutive fragments yields exactly the chunk it yields when delivered
\* whole, wherever it sits among the other lines: the chunks of the
\* connection are those of its frames delivered whole.
C27_NdjsonReassembly ==
  ( /\ is_ollama
    /\ Ended
    /\ Len(cuts) = 2
    /\ \E i \in 1..Len(frames) :
         frames[i] \in {NdHello, NdLo, NdSpaced} /\ SplitInside(i) )
  => LargeChunks = WholeFrameChunks(frames, TRUE)
\* A text without its white space.
Squeeze(text) == SelectSeq(text, LAMBDA c : c \notin Whitespace)

\* Chunk a is the chunk of the frame that yields chunk b when whole: the
\* same but for white space lost where a fragment ended (C27).
ChunkOf(a, b) ==
  /\ a.role = b.role
  /\ a.finish_reason = b.finish_reason
  /\ Squeeze(a.content) = Squeeze(b.content)

\* as can be read off bs from left to right, skipping elements of bs.
RECURSIVE IsSubseq(_, _)
IsSubseq(as, bs) ==
  IF as = <<>> THEN TRUE
  ELSE IF bs = <<>> THEN FALSE
  ELSE IF ChunkOf(Head(as), Head(bs)) THEN IsSubseq(Tail(as), Tail(bs))
  ELSE IsSubseq(as, Tail(bs))

\* C28: whatever the fragmentation, the chunks emitted so far are, in
\* order, the chunks of a subsequence of the frames of the connection: each
\* frame accounts for at most one chunk and no two chunks come in the
\* opposite order to their frames.
C28_Subsequence ==
  /\ IsSubseq(LargeChunks, WholeFrameChunks(frames, is_ollama))
  /\ \A i \in 1..Len(out) : out[i].kind \in {"chunk", "done"}

\* C28 witness: two frames, cut inside a line, each yielded its chunk.
C28_Witness ==
  /\ Ended
  /\ ~Aligned
  /\ Len(frames) = 2
  /\ frames[1] # frames[2]
  /\ Len(LargeChunks) = 2
\* The text after the last line terminator of s: all of s when it holds
\* no terminator, nothing when it ends on one.
RECURSIVE UnterminatedTail(_)
UnterminatedTail(s) ==
  IF s = <<>> \/ s[Len(s)] = "\n" THEN <<>>
  ELSE Append(UnterminatedTail(SubSeq(s, 1, Len(s) - 1)), s[Len(s)])

\* C29: after each fragment the buffer holds exactly the text received
\* after the last line terminator, and so never a line that was delivered
\* complete.
C29_BufferIsTail ==
  (cuts # <<>>) => buffer = UnterminatedTail(SubSeq(Wire(frames), 1, Pos))

(***************************************************************************)
(* Claims about the eviction.                                              *)
(***************************************************************************)
\* The last n elements of v.
Newest(v, n) == SubSeq(v, Len(v) - n + 1, Len(v))

Sequences4 ==
  <<first_response_times, total_response_times, quick_response_times,
    large_model_times>>

\* Task t takes the step from stage `from` of its call to stage `to`.
Moves(t, from, to) == pc[t] = from /\ pc'[t] = to

\* C31: if every record so far supplied both optional values, then between
\* records the four sequences have the same length, whatever max_entries.
C31_LengthConsistent ==
  (n_partial = 0 /\ \A t \in Tasks : pc[t] # "add_commit") =>
    /\ Len(total_response_times) = Len(first_response_times)
    /\ Len(quick_response_times) = Len(first_response_times)
    /\ Len(large_model_times) = Len(first_response_times)

\* C32: the counter counts the records since the last reset: the step that
\* ends a record adds one to it, evicting or not; the step that ends a
\* reset makes it 0; no other step changes it, and the steps of get_stats,
\* get_request_count and get_avg_first_response_time change no sequence
\* either.
C32_CounterCounts ==
  [][/\ \A t \in Tasks :
          /\ Moves(t, "add_commit", "idle") =>
               request_count' = request_count + 1
          /\ Moves(t, "reset_body", "idle") => request_count' = 0
          /\ (/\ pc[t] \in {"get_lock", "get_read", "m_lock", "m_read",
                              "avg", "m_avg", "count", "m_count"}
              /\ pc'[t] # pc[t]) =>
               UNCHANGED <<request_count, Sequences4>>
     /\ (\A t \in Tasks : /\ ~Moves(t, "add_commit", "idle")
                          /\ ~Moves(t, "reset_body", "idle")) =>
          request_count' = request_count]_vars

\* C32 witness: with max_entries = 1 two records were made, the second
\* evicted every sample, and a get_request_count after it returned 2.
C32_Witness ==
  /\ AllIdle
  /\ max_entries = 1
  /\ n_add = 2
  /\ n_reset = 0
  /\ first_response_times = <<>>
  /\ request_count = 2
  /\ \E t \in Tasks : ret[t] = 2

\* C33: a snapshot is taken with no record and no reset under way: while a
\* task holds its five read guards no task holds a write guard or is
\* between the first and the last write of its call; so what a snapshot
\* saw is what whole operations leave, sequences of one length and, as long
\* as nothing was evicted, a counter of that value.
C33_SnapshotWhole ==
  \A t \in Tasks :
    /\ (pc[t] \in {"get_read", "m_read"}) =>
         /\ \A l \in Locks : writer[l] = 0
         /\ \A u \in Tasks : pc[u] \notin {"add_push", "add_commit",
                                            "reset_body"}
    /\ snap[t].total = snap[t].first
    /\ (n_add <= max_entries) =>
         /\ snap[t].count = snap[t].first
         /\ snap[t].large = snap[t].first
         /\ (n_partial = 0) => snap[t].quick = snap[t].first

\* C33 witness: after one record a task holds its five read guards, about
\* to copy the state, while another task waits to make the next record.
C33_Witness ==
  \E t, u \in Tasks :
    /\ pc[t] = "get_read"
    /\ nheld[t] = 5
    /\ pc[u] = "add_lock"
    /\ nheld[u] = 0
    /\ request_count = 1
    /\ Len(first_response_times) = 1

\* C34: whatever the interleaving of add_request, get_stats, reset,
\* get_request_count, get_avg_first_response_time and metrics calls, every
\* call in progress returns.
C34_EveryCallReturns ==
  \A t \in Tasks : (pc[t] # "idle") ~> (pc[t] = "idle")
\* C34 witness: a task waits for a lock that another task holds for
\* writing, while that task is still taking the rest of its locks.
C34_Witness ==
  \E t, u \in Tasks :
    /\ t # u
    /\ pc[t] \in {"add_lock", "reset_lock", "get_lock", "m_lock"}
    /\ nheld[t] = 0
    /\ writer[1] = u
    /\ pc[u] \in {"add_lock", "reset_lock"}
    /\ nheld[u] < 5
\* C35: in the metrics a task has read, the request count under
\* "comparison" equals the total_requests of the mode's snapshot.
C35_MetricsAgree ==
  \A t \in Tasks :
    (metrics[t] # <<>>) =>
      metrics[t][1].mode_requests = metrics[t][1].total_requests

(***************************************************************************)
(* Claims about the classification of a message.                           *)
(***************************************************************************)
\* The lower-cased text has a keyword of the set.
HasKeyword(text, patterns) ==
  \E p \in patterns : Contains(ToLowercase(text), p)

\* C39: categorize returns a category for every text, by strict priority
\* over the lower-cased text: Greeting if it contains a greeting keyword,
\* whatever else it contains; otherwise Question if it contains a question
\* keyword or a question mark; otherwise Request if it contains a request
\* keyword; otherwise, the empty text included, Thinking.
C39_Priority ==
  (category # "none") =>
    LET text == cat_message.content
        g == HasKeyword(text, GreetingPatterns)
        q == HasKeyword(text, QuestionPatterns)
        r == HasKeyword(text, RequestPatterns)
    IN /\ category \in {"Greeting", "Question", "Request", "Thinking"}
       /\ g => category = "Greeting"
       /\ (~g /\ q) => category = "Question"
       /\ (~g /\ ~q /\ r) => category = "Request"
       /\ (~g /\ ~q /\ ~r) => category = "Thinking"
       /\ (text = <<>>) => category = "Thinking"

\* C39 witness: the mixed text of the test, a greeting that also holds a
\* question keyword and a question mark, was classified as Greeting.
C39_Witness ==
  /\ category = "Greeting"
  /\ Contains(ToLowercase(cat_message.content), <<"h", "o", "w">>)
  /\ Contains(cat_message.content, <<"fw?">>)

(***************************************************************************)
(* Claims about the validation of a request.                               *)
(***************************************************************************)
\* The text has a character that is not white space.
NonBlank(text) == \E i \in 1..Len(text) : text[i] \notin Whitespace

\* C40: validate accepts a request exactly when the model name is
\* non-blank, the message list is non-empty, every message has a non-blank
\* content and a role among system, user and assistant, max_tokens, when
\* present, is in 1..8192, and the temperature is in [0.0, 2.0]; max_tokens
\* 0 and 8193 are rejected, 1, 8192 and an absent max_tokens are accepted
\* when the rest is valid.
C40_ValidateExactly ==
  (val_result # "none") =>
    LET req == val_request
        rest == /\ NonBlank(req.model)
                /\ Len(req.messages) > 0
                /\ \A i \in 1..Len(req.messages) :
                     /\ NonBlank(req.messages[i].content)
                     /\ req.messages[i].role \in
                          {"system", "user", "assistant"}
                /\ req.temperature \in 0..MaxTemperatureTenths
        tokens == \/ req.max_tokens = <<>>
                  \/ req.max_tokens[1] \in 1..MaxTokensLimit
    IN /\ (val_result = "ok") <=> (rest /\ tokens)
       /\ (req.max_tokens \in {<<0>>, <<MaxTokensLimit + 1>>}) =>
            val_result = "err"
       /\ (rest /\ req.max_tokens \in {<<>>, <<1>>, <<MaxTokensLimit>>}) =>
            val_result = "ok"

\* C40 witness: a request of two messages with max_tokens 8192 and
\* temperature 2.0 was accepted.
C40_Witness ==
  /\ val_result = "ok"
  /\ Len(val_request.messages) = 2
  /\ val_request.max_tokens = <<MaxTokensLimit>>
  /\ val_request.temperature = MaxTemperatureTenths

(***************************************************************************)
(* Claims about chunks that serialize to more than 1 MiB.                  *)
(***************************************************************************)
\* The chunk serializes to at most 1 MiB for the model name of the request.
Fits(chunk) == JsonLen(chunk, model_len) <= MaxChunkBytes

\* C38: a quick chunk larger than 1 MiB fails the request: the large-model
\* call is not made and nothing is emitted.  A large-model frame whose
\* chunk is larger than 1 MiB is dropped and nothing else happens: no
\* emitted chunk is too large, and when the upstream has ended without a
\* transport error, every fragment having ended on a line end, the chunks
\* emitted are those of the frames that fit, in order, with no error item;
\* the closed stream ends with [DONE].
C38_Oversized ==
  /\ (/\ ~disable_quick
      /\ phase # "request"
      /\ Validate(request)
      /\ ~Fits(QuickChunk(quick_response))) =>
       /\ phase = "failed"
       /\ large_calls = 0
       /\ out = <<>>
  /\ \A i \in 1..Len(out) : IsChunk(out[i]) => Fits(out[i])
  /\ (Ended /\ nerr = 0 /\ Aligned) =>
       /\ LargeChunks = SelectSeq(WholeFrameChunks(frames, is_ollama), Fits)
       /\ \A i \in 1..Len(out) : ~IsErrorItem(out[i])
  /\ (phase = "closed") => out[Len(out)] = DoneItem

\* C38 witness: on the quick path the quick chunk fits; of the two frames
\* the first is too large and the second is not; the stream is the quick
\* chunk, the chunk of the second frame and [DONE].
C38_Witness ==
  /\ phase = "closed"
  /\ ~disable_quick
  /\ ~is_ollama
  /\ frames = <<SseHello, SseLo>>
  /\ Len(cuts) = 2
  /\ Aligned
  /\ nerr = 0
  /\ out = <<QuickChunk(QuickText), Chunk(None, <<"l", "o">>, None),
             DoneItem>>

=============================================================================
